---- MODULE Spec2Model ----
(***************************************************************************)
(* Verification model of the mogptk GP core: the channel-stacking          *)
(* utilities (gpr/util.py) and the likelihood layer (gpr/likelihood.py).   *)
(*                                                                         *)
(* A tensor is a record [ndim, nrows, ncols, data]; data is the sequence   *)
(* of its rows, each row the sequence of its entries.  Python indices are  *)
(* 0-based and TLA+ sequences 1-based: channel c of the code is item c+1   *)
(* of a list here, and the slice X[a:b] is SubSeq(X, a+1, b).              *)
(***************************************************************************)
EXTENDS Integers, Sequences, FiniteSets, TLC

VARIABLES
    call,   \* the call in progress: its name and arguments
    ret,    \* what the call returned or raised
    orig,   \* a round trip's original N and segments (merge_data/split_data)
    mol,    \* the MultiOutputLikelihood instance: output_dims and likelihoods
    fbuf,   \* the caller's tensor f of latent samples, which sample() is handed
    lik,    \* a single-output Likelihood instance: its class and parameters
    obj,    \* a Likelihood instance as a Python object: its attribute table, the
            \* Parameter objects it can reach, and its quadrature engine
    ker,    \* a multi-output kernel instance: its configuration and Parameters
    ds      \* a DataSet instance: its list of channels

vars == <<call, ret, orig, mol, fbuf, lik, obj, ker, ds>>

\* What the channel-stacking utilities never touch
likVars == <<mol, fbuf, lik, obj, ker, ds>>

----------------------------------------------------------------------------
(* Bounds of the checked instances.                                        *)

MaxChan == 2
MaxRows == 3
MaxCols == 2
MaxMats == 2
MaxLik  == 2
MaxN    == 3
NSamples == 4
MaxHalf == 6

----------------------------------------------------------------------------
(* Generic helpers.                                                        *)

RECURSIVE SumSeq(_)
SumSeq(s) == IF s = <<>> THEN 0 ELSE Head(s) + SumSeq(Tail(s))

\* sum(N[0:k]) : the number of rows before channel k (0-based)
Offset(N, k) == SumSeq(SubSeq(N, 1, k))

\* All sequences over S of length 0..n
SeqsUpTo(S, n) == UNION {[1..k -> S] : k \in 0..n}

\* Lists of row counts with at most MaxChan channels and MaxRows rows in all
NLists == {N \in SeqsUpTo(0..MaxRows, MaxChan) : SumSeq(N) <= MaxRows}

\* The Python slice s[a:b] for 0 <= a <= b
Slice(s, a, b) == SubSeq(s, a + 1, IF b > Len(s) THEN Len(s) ELSE b)

----------------------------------------------------------------------------
(* Tensors the callers hand in.  Entries are distinct numbers per           *)
(* (tag, row, column) so that a misplaced row or column shows.             *)

XVal(tag, i, j) == 1000 + 100 * tag + 10 * i + j

MkTensor(tag, r, k) ==
    [ndim |-> 2, nrows |-> r, ncols |-> k,
     data |-> [i \in 1..r |-> [j \in 1..k |-> XVal(tag, i, j)]]]

\* A one-dimensional tensor of r entries (shape (r,))
MkVector(tag, r) ==
    [ndim |-> 1, nrows |-> r, ncols |-> 0,
     data |-> [i \in 1..r |-> <<XVal(tag, i, 0)>>]]

Zeros(r, k) ==
    [ndim |-> 2, nrows |-> r, ncols |-> k,
     data |-> [i \in 1..r |-> [j \in 1..k |-> 0]]]

PyNone    == [kind |-> "None", items |-> <<>>]
PyNotList == [kind |-> "notlist", items |-> <<>>]
PyList(s) == [kind |-> "list", items |-> s]

\* Per-channel inputs: channel c (0-based) has N[c+1] rows and cols[c+1] columns
XsOf(N, cols) == PyList([c \in 1..Len(N) |-> MkTensor(c - 1, N[c], cols[c])])

\* Per-channel outputs, all with yc columns (the contract asks for 1)
YsOf(N, yc) == PyList([c \in 1..Len(N) |-> MkTensor(5 + c, N[c], yc)])

XsInputs ==
    {PyNotList} \cup
    {XsOf(N, cols) : <<N, cols>> \in
        {nc \in NLists \X SeqsUpTo(1..MaxCols, MaxChan) : Len(nc[1]) = Len(nc[2])}}

YsInputs ==
    {PyNone, PyNotList} \cup {YsOf(N, yc) : N \in NLists, yc \in {1, 2}}

----------------------------------------------------------------------------
(* gpr/util.py : merge_data                                                *)

\* torch slice assignment T[n:n+cnt, c0:] = V.  V is broadcast to the target
\* shape (cnt, T.ncols - c0): its column count must equal the target's or be 1.
CanAssign(T, cnt, c0, V) ==
    /\ V.ndim = 2
    /\ V.nrows = cnt
    /\ (V.ncols = T.ncols - c0 \/ V.ncols = 1)

\* Mutant: every target row receives the first row of V
AssignBlock_FirstRow(T, n, cnt, c0, V) ==
    [T EXCEPT !.data =
        [i \in 1..T.nrows |->
            IF i > n /\ i <= n + cnt
            THEN [j \in 1..T.ncols |->
                    IF j <= c0 THEN T.data[i][j]
                    ELSE IF V.ncols = 1 THEN V.data[1][1]
                    ELSE V.data[1][j - c0]]
            ELSE T.data[i]]]

AssignBlock(T, n, cnt, c0, V) ==
    [T EXCEPT !.data =
        [i \in 1..T.nrows |->
            IF i > n /\ i <= n + cnt
            THEN [j \in 1..T.ncols |->
                    IF j <= c0 THEN T.data[i][j]
                    ELSE IF V.ncols = 1 THEN V.data[i - n][1]
                    ELSE V.data[i - n][j - c0]]
            ELSE T.data[i]]]

\* Mutant: the channel tag written 1-based
AssignScalarCol_OneBased(T, n, cnt, v) ==
    [T EXCEPT !.data =
        [i \in 1..T.nrows |->
            IF i > n /\ i <= n + cnt
            THEN [j \in 1..T.ncols |-> IF j = 1 THEN v + 1 ELSE T.data[i][j]]
            ELSE T.data[i]]]

\* torch slice assignment T[n:n+cnt, 0] = v for a scalar v
AssignScalarCol(T, n, cnt, v) ==
    [T EXCEPT !.data =
        [i \in 1..T.nrows |->
            IF i > n /\ i <= n + cnt
            THEN [j \in 1..T.ncols |-> IF j = 1 THEN v ELSE T.data[i][j]]
            ELSE T.data[i]]]

Raise(e) == [err |-> e]

\* One pass of the loop "for channel, x in enumerate(xs)" from channel ch
\* (1-based here; the code's value is ch-1) with running row offset n.
RECURSIVE MergeLoop(_, _, _, _, _, _, _)
MergeLoop(xs, ys, N, ch, n, X, Y) ==
    IF ch > Len(xs.items)
    THEN IF ys.kind # "None"
         THEN [err |-> "none", N |-> N, X |-> X, hasY |-> TRUE, Y |-> Y]
         ELSE [err |-> "none", N |-> N, X |-> X, hasY |-> FALSE, Y |-> Zeros(0, 0)]
    ELSE LET x  == xs.items[ch]
             X1 == AssignScalarCol(X, n, N[ch], ch - 1)
         IN  IF ~CanAssign(X1, N[ch], 1, x)
             THEN Raise("RuntimeError")
             ELSE LET X2 == AssignBlock(X1, n, N[ch], 1, x)
                  IN  IF ys.kind = "None"
                      THEN MergeLoop(xs, ys, N, ch + 1, n + N[ch], X2, Y)
                      ELSE IF ~CanAssign(Y, N[ch], 0, ys.items[ch])
                           THEN Raise("RuntimeError")
                           ELSE MergeLoop(xs, ys, N, ch + 1, n + N[ch], X2,
                                          AssignBlock(Y, n, N[ch], 0, ys.items[ch]))

\* Mutant: the per-channel row counts of xs and ys are not compared
merge_data_NoRowCheck(xs, ys) ==
    IF xs.kind # "list" \/ (ys.kind # "None" /\ ys.kind # "list")
    THEN Raise("ValueError")
    ELSE LET output_dims == Len(xs.items) IN
         IF ys.kind # "None" /\ Len(ys.items) # output_dims
         THEN Raise("ValueError")
         ELSE LET N == [i \in 1..output_dims |-> xs.items[i].nrows] IN
              IF output_dims = 0
              THEN Raise("IndexError")
              ELSE MergeLoop(xs, ys, N, 1, 0,
                             Zeros(SumSeq(N), 1 + xs.items[1].ncols),
                             Zeros(SumSeq(N), 1))

merge_data(xs, ys) ==
    IF xs.kind # "list" \/ (ys.kind # "None" /\ ys.kind # "list")
    THEN Raise("ValueError")
    ELSE LET output_dims == Len(xs.items) IN
         IF ys.kind # "None" /\ Len(ys.items) # output_dims
         THEN Raise("ValueError")
         ELSE LET N == [i \in 1..output_dims |-> xs.items[i].nrows] IN
              IF ys.kind # "None" /\ ~(\A i \in 1..output_dims : ys.items[i].nrows = N[i])
              THEN Raise("ValueError")
              ELSE IF output_dims = 0
                   THEN Raise("IndexError")          \* xs[0] of an empty list
                   ELSE MergeLoop(xs, ys, N, 1, 0,
                                  Zeros(SumSeq(N), 1 + xs.items[1].ncols),
                                  Zeros(SumSeq(N), 1))

----------------------------------------------------------------------------
(* gpr/util.py : split_data                                                *)

\* Mutant: the row offset n is not advanced from one channel to the next
RECURSIVE SplitOne_NoAdvance(_, _, _, _)
SplitOne_NoAdvance(N, X, ch, n) ==
    IF ch > Len(N) THEN <<>>
    ELSE <<[ndim |-> 2, nrows |-> Len(Slice(X.data, n, n + N[ch])), ncols |-> X.ncols,
            data |-> Slice(X.data, n, n + N[ch])]>>
         \o SplitOne_NoAdvance(N, X, ch + 1, n)

\* The inner loop "for channel in range(len(N))" on one matrix
RECURSIVE SplitOne(_, _, _, _)
SplitOne(N, X, ch, n) ==
    IF ch > Len(N) THEN <<>>
    ELSE <<[ndim |-> 2, nrows |-> Len(Slice(X.data, n, n + N[ch])), ncols |-> X.ncols,
            data |-> Slice(X.data, n, n + N[ch])]>>
         \o SplitOne(N, X, ch + 1, n + N[ch])

\* Mutant: the shape checks pass as soon as one matrix passes (any for all)
split_data_AnyCheck(N, Xs) ==
    IF ~(\E m \in 1..Len(Xs) : Xs[m].ndim = 2) /\ Len(Xs) > 0
    THEN Raise("ValueError")
    ELSE IF ~(\E m \in 1..Len(Xs) : Xs[m].nrows = SumSeq(N)) /\ Len(Xs) > 0
    THEN Raise("ValueError")
    ELSE LET data == [m \in 1..Len(Xs) |-> SplitOne(N, Xs[m], 1, 0)] IN
         IF Len(data) = 1
         THEN [err |-> "none", single |-> TRUE, data |-> <<data[1]>>]
         ELSE [err |-> "none", single |-> FALSE, data |-> data]

split_data(N, Xs) ==
    IF ~(\A m \in 1..Len(Xs) : Xs[m].ndim = 2)
    THEN Raise("ValueError")
    ELSE IF ~(\A m \in 1..Len(Xs) : Xs[m].nrows = SumSeq(N))
    THEN Raise("ValueError")
    ELSE LET data == [m \in 1..Len(Xs) |-> SplitOne(N, Xs[m], 1, 0)] IN
         IF Len(data) = 1
         THEN [err |-> "none", single |-> TRUE, data |-> <<data[1]>>]
         ELSE [err |-> "none", single |-> FALSE, data |-> data]

\* The matrices a caller may hand to split_data: two-dimensional ones of any
\* row and column count, and one-dimensional ones.
MatShapes ==
    {<<2, r, k>> : r \in 0..MaxRows, k \in 1..MaxCols} \cup {<<1, r, 0>> : r \in 0..MaxRows}

MatOf(tag, sh) == IF sh[1] = 2 THEN MkTensor(tag, sh[2], sh[3]) ELSE MkVector(tag, sh[2])

MatLists == {[m \in 1..Len(shs) |-> MatOf(m, shs[m])] : shs \in SeqsUpTo(MatShapes, MaxMats)}

----------------------------------------------------------------------------
(* The callers of the channel-stacking utilities.                          *)

NoCall == [op |-> "none"]
NoRet  == [err |-> "none"]
NoOrig == [stage |-> "none", N |-> <<>>, segs |-> <<>>]
NoObj  == [built |-> FALSE, output_dims |-> 0, likelihoods |-> <<>>]
NoBuf  == <<>>
NoInst == [built |-> FALSE]
NoKernel == [built |-> FALSE]
NoDataSet == [built |-> FALSE, channels |-> <<>>]
NoLik  == [cls |-> "none", dof |-> 0, scale |-> 0, shape |-> 0, link |-> "none"]

Init ==
    /\ call = NoCall
    /\ ret = NoRet
    /\ orig = NoOrig
    /\ mol = NoObj
    /\ fbuf = NoBuf
    /\ lik = NoLik
    /\ obj = NoInst
    /\ ker = NoKernel
    /\ ds = NoDataSet

\* A caller stacks per-channel arrays.
CallMerge ==
    /\ call.op = "none"
    /\ \E xs \in XsInputs, ys \in YsInputs :
        /\ call' = [op |-> "merge_data", xs |-> xs, ys |-> ys]
        /\ ret' = merge_data(xs, ys)
        /\ orig' = NoOrig
        /\ UNCHANGED likVars

\* A caller splits one or more stacked matrices.
CallSplit ==
    /\ call.op = "none"
    /\ \E N \in NLists, Xs \in MatLists :
        /\ call' = [op |-> "split_data", N |-> N, Xs |-> Xs]
        /\ ret' = split_data(N, Xs)
        /\ orig' = NoOrig
        /\ UNCHANGED likVars

\* Round trip, step 2: the segments of a split of one matrix are merged again.
RoundTripMerge ==
    /\ call.op = "split_data"
    /\ orig.stage = "none"
    /\ ret.err = "none"
    /\ ret.single
    /\ LET xs == PyList(ret.data[1]) IN
        /\ call' = [op |-> "merge_data", xs |-> xs, ys |-> PyNone]
        /\ ret' = merge_data(xs, PyNone)
        /\ orig' = [stage |-> "merged", N |-> call.N, segs |-> ret.data[1]]
        /\ UNCHANGED likVars

\* Round trip, step 3: the merged matrix is split with the original N.
RoundTripSplit ==
    /\ orig.stage = "merged"
    /\ ret.err = "none"
    /\ call' = [op |-> "split_data", N |-> orig.N, Xs |-> <<ret.X>>]
    /\ ret' = split_data(orig.N, <<ret.X>>)
    /\ orig' = [orig EXCEPT !.stage = "resplit"]
    /\ UNCHANGED likVars

\* The caller is done with the result and is ready for its next call.
ReturnData ==
    /\ call.op \in {"merge_data", "split_data"}
    /\ call' = NoCall
    /\ ret' = NoRet
    /\ orig' = NoOrig
    /\ UNCHANGED likVars

NextData == CallMerge \/ CallSplit \/ RoundTripMerge \/ RoundTripSplit \/ ReturnData

SpecData == Init /\ [][NextData]_vars

----------------------------------------------------------------------------
(* Claims about merge_data / split_data, checked under SpecData.           *)

\* T without its column 0
DropCol0(T) ==
    [T EXCEPT !.ncols = @ - 1, !.data = [i \in 1..T.nrows |-> Tail(T.data[i])]]

RECURSIVE ConcatRows(_)
ConcatRows(segs) ==
    IF segs = <<>> THEN <<>> ELSE Head(segs).data \o ConcatRows(Tail(segs))

IsMerge == call.op = "merge_data"
IsSplit == call.op = "split_data"

\* C1 as stated: splitting X by N, merging the segments and splitting the
\* merged matrix by N again gives back the original per-channel arrays.
C1_RoundTripExact ==
    orig.stage = "resplit" => (ret.err = "none" /\ ret.data[1] = orig.segs)

\* C1 (amended): with at least one channel the round trip completes, merge
\* reports the same row counts N, and every re-split segment is the original
\* segment of that channel in columns 1.., preceded by a column 0 that holds
\* the channel index; channel order is preserved.
C1_RoundTripTagged ==
    /\ (orig.stage = "merged" /\ Len(orig.N) >= 1) =>
            (ret.err = "none" /\ ret.N = orig.N)
    /\ orig.stage = "resplit" =>
            /\ ret.err = "none"
            /\ ret.single
            /\ Len(ret.data[1]) = Len(orig.segs)
            /\ \A c \in 1..Len(orig.segs) :
                 /\ DropCol0(ret.data[1][c]) = orig.segs[c]
                 /\ \A i \in 1..ret.data[1][c].nrows : ret.data[1][c].data[i][1] = c - 1

C1_Witness ==
    /\ orig.stage = "resplit"
    /\ orig.N = <<2, 1>>
    /\ ret.err = "none"
    /\ orig.segs[1].ncols = 2

\* The inputs of the merge_data contract: a list of at least one channel, all
\* inputs with the same number D of columns, and outputs (if given) one per
\* channel, of one column and as many rows as the channel's input.
MergeWellShaped ==
    /\ IsMerge
    /\ call.xs.kind = "list"
    /\ Len(call.xs.items) >= 1
    /\ \A c \in 1..Len(call.xs.items) : call.xs.items[c].ncols = call.xs.items[1].ncols
    /\ call.ys.kind \in {"None", "list"}
    /\ call.ys.kind = "list" =>
          /\ Len(call.ys.items) = Len(call.xs.items)
          /\ \A c \in 1..Len(call.ys.items) :
                /\ call.ys.items[c].nrows = call.xs.items[c].nrows
                /\ call.ys.items[c].ncols = 1

\* C2: merge_data returns the row counts N, a stacked X of sum(N) rows and
\* 1+D columns where channel c's rows fill [N_0+..+N_{c-1}, N_0+..+N_c) with c
\* in column 0 and the raw input rows, in order, in columns 1..D, and (ys
\* given) a stacked Y holding ys[c] in the same row range.
C2_MergeLayout ==
    MergeWellShaped =>
        LET xs == call.xs.items
            D  == xs[1].ncols
            N  == [c \in 1..Len(xs) |-> xs[c].nrows]
        IN  /\ ret.err = "none"
            /\ ret.N = N
            /\ ret.X.ndim = 2 /\ ret.X.nrows = SumSeq(N) /\ ret.X.ncols = 1 + D
            /\ Len(ret.X.data) = SumSeq(N)
            /\ \A c \in 1..Len(xs) : \A i \in 1..N[c] :
                  ret.X.data[Offset(N, c - 1) + i] = <<c - 1>> \o xs[c].data[i]
            /\ ret.hasY = (call.ys.kind = "list")
            /\ ret.hasY =>
                  /\ ret.Y.nrows = SumSeq(N) /\ ret.Y.ncols = 1
                  /\ Len(ret.Y.data) = SumSeq(N)
                  /\ \A c \in 1..Len(xs) : \A i \in 1..N[c] :
                        ret.Y.data[Offset(N, c - 1) + i] = call.ys.items[c].data[i]

C2_Witness ==
    /\ MergeWellShaped
    /\ Len(call.xs.items) = 2
    /\ call.xs.items[1].nrows = 2 /\ call.xs.items[2].nrows = 1
    /\ call.xs.items[1].ncols = 2
    /\ call.ys.kind = "list"
    /\ ret.err = "none"

\* The four cases in which merge_data is documented to fail
MergeErrorCase ==
    \/ call.xs.kind # "list"
    \/ call.ys.kind = "notlist"
    \/ call.ys.kind = "list" /\ call.xs.kind = "list"
          /\ Len(call.ys.items) # Len(call.xs.items)
    \/ call.ys.kind = "list" /\ call.xs.kind = "list"
          /\ Len(call.ys.items) = Len(call.xs.items)
          /\ \E c \in 1..Len(call.xs.items) :
                call.ys.items[c].nrows # call.xs.items[c].nrows

\* C3 as stated: merge_data raises ValueError in the four cases and returns
\* without error in every other case with at least one channel.
C3_MergeErrorsExact ==
    IsMerge =>
        /\ MergeErrorCase => ret.err = "ValueError"
        /\ (~MergeErrorCase /\ Len(call.xs.items) >= 1) => ret.err = "none"

\* C3 (amended): merge_data raises ValueError, with no result, in the four
\* cases and only in them; in every other case with at least one channel
\* whose input arrays all have the same number of columns and whose output
\* arrays (if given) have one column it returns without error.
C3_MergeErrors ==
    IsMerge =>
        /\ MergeErrorCase <=> ret.err = "ValueError"
        /\ ret.err # "none" => DOMAIN ret = {"err"}
        /\ (~MergeErrorCase /\ MergeWellShaped) => ret.err = "none"

C3_Witness ==
    /\ IsMerge
    /\ call.xs.kind = "list" /\ call.ys.kind = "list"
    /\ Len(call.xs.items) = 2 /\ Len(call.ys.items) = 2
    /\ call.xs.items[1].nrows = call.ys.items[1].nrows
    /\ call.xs.items[2].nrows # call.ys.items[2].nrows
    /\ ret.err = "ValueError"

\* The matrices split_data accepts
SplitWellShaped ==
    /\ IsSplit
    /\ \A m \in 1..Len(call.Xs) :
          call.Xs[m].ndim = 2 /\ call.Xs[m].nrows = SumSeq(call.N)

\* C4: split_data cuts every supplied matrix into len(N) consecutive,
\* non-overlapping segments covering all rows, segment c of N[c] rows starting
\* at row N[0]+..+N[c-1]; the same boundaries for every matrix; one list for a
\* single matrix and one list per matrix, in argument order, for several.
C4_SplitSegments ==
    SplitWellShaped =>
        /\ ret.err = "none"
        /\ ret.single = (Len(call.Xs) = 1)
        /\ Len(ret.data) = Len(call.Xs)
        /\ \A m \in 1..Len(call.Xs) :
             /\ Len(ret.data[m]) = Len(call.N)
             /\ ConcatRows(ret.data[m]) = call.Xs[m].data
             /\ \A c \in 1..Len(call.N) :
                  LET seg == ret.data[m][c] IN
                  /\ seg.nrows = call.N[c]
                  /\ Len(seg.data) = call.N[c]
                  /\ seg.ncols = call.Xs[m].ncols
                  /\ \A i \in 1..call.N[c] :
                        seg.data[i] = call.Xs[m].data[Offset(call.N, c - 1) + i]

C4_Witness ==
    /\ SplitWellShaped
    /\ orig.stage = "none"
    /\ Len(call.Xs) = 2
    /\ call.N = <<1, 2>>
    /\ call.Xs[1].ncols # call.Xs[2].ncols
    /\ ret.err = "none"

\* C5: split_data raises ValueError, with no partial result, as soon as one
\* supplied matrix has a row count other than sum(N) or is not
\* two-dimensional, whatever the other matrices are.
C5_SplitErrors ==
    (IsSplit /\ ~SplitWellShaped) => (ret.err = "ValueError" /\ DOMAIN ret = {"err"})

C5_Witness ==
    /\ IsSplit
    /\ Len(call.Xs) = 2
    /\ call.Xs[1].ndim = 2 /\ call.Xs[1].nrows = SumSeq(call.N)
    /\ call.Xs[2].ndim = 2 /\ call.Xs[2].nrows # SumSeq(call.N)
    /\ SumSeq(call.N) > 0
    /\ ret.err = "ValueError"

----------------------------------------------------------------------------
(* gpr/likelihood.py : classes                                             *)

\* The likelihood classes used as channels of a MultiOutputLikelihood
LikKinds == {"GaussianLikelihood", "PoissonLikelihood", "BernoulliLikelihood"}

\* The direct base class of a class
Base(cls) ==
    IF cls \in LikKinds \cup {"MultiOutputLikelihood"} THEN "Likelihood"
    ELSE IF cls = "Likelihood" THEN "Module"
    ELSE "object"

\* issubclass(cls, of); isinstance(x, of) is IsSubclass(x.cls, of)
RECURSIVE IsSubclass(_, _)
IsSubclass(cls, of) ==
    cls = of \/ (cls # "object" /\ IsSubclass(Base(cls), of))

\* A Python value handed to the constructor: an instance of class cls; a list
\* carries its items.
Obj(cls) == [cls |-> cls, items |-> <<>>]
ListObj(items) == [cls |-> "list", items |-> items]

Elems == {Obj(c) : c \in LikKinds \cup {"MultiOutputLikelihood", "list"}}

\* The argument tuples *likelihoods: up to MaxLik positional arguments, or one
\* list of up to MaxLik items.
ArgTuples ==
    SeqsUpTo(Elems, MaxLik) \cup {<<ListObj(it)>> : it \in SeqsUpTo(Elems, MaxLik)}

----------------------------------------------------------------------------
(* gpr/likelihood.py : MultiOutputLikelihood.__init__                      *)

\* Mutant: nested MultiOutputLikelihoods are let through
MOL_init_AllowNesting(args) ==
    LET likelihoods == IF Len(args) = 1 /\ IsSubclass(args[1].cls, "list")
                       THEN args[1].items ELSE args
    IN  IF Len(likelihoods) = 0
        THEN Raise("ValueError")
        ELSE IF \E i \in 1..Len(likelihoods) :
                    ~IsSubclass(likelihoods[i].cls, "Likelihood")
             THEN Raise("ValueError")
             ELSE [err |-> "none", output_dims |-> Len(likelihoods),
                   likelihoods |-> [i \in 1..Len(likelihoods) |-> likelihoods[i].cls]]

MOL_init(args) ==
    LET likelihoods == IF Len(args) = 1 /\ IsSubclass(args[1].cls, "list")
                       THEN args[1].items ELSE args
    IN  IF Len(likelihoods) = 0
        THEN Raise("ValueError")
        ELSE IF \E i \in 1..Len(likelihoods) :
                    \/ ~IsSubclass(likelihoods[i].cls, "Likelihood")
                    \/ IsSubclass(likelihoods[i].cls, "MultiOutputLikelihood")
             THEN Raise("ValueError")
             ELSE [err |-> "none", output_dims |-> Len(likelihoods),
                   likelihoods |-> [i \in 1..Len(likelihoods) |-> likelihoods[i].cls]]

----------------------------------------------------------------------------
(* gpr/likelihood.py : MultiOutputLikelihood._channel_indices              *)
(*                                                                         *)
(* X is the sequence of its rows <<channel, input>>.  Column 0 is a float: *)
(* it is kept in half units (2 is 1.0, 1 is 0.5, -1 is -0.5), so that the   *)
(* conversion .long() has something to truncate.                           *)

ChanVals == {-1, 1} \cup {2 * j : j \in 0..MaxLik}

XRows == UNION {[1..n -> ChanVals] : n \in 0..MaxN}

MkX(chan) == [r \in 1..Len(chan) |-> <<chan[r], XVal(9, r, 1)>>]

\* torch .long() of a float in half units: truncation toward zero
Long(v) == IF v >= 0 THEN v \div 2 ELSE -((-v) \div 2)

\* torch.nonzero(mask).reshape(-1): the 0-based positions of the TRUE entries,
\* in increasing order
Nonzero(mask) ==
    LET Hit(i) == mask[i + 1]
    IN  SelectSeq([i \in 1..Len(mask) |-> i - 1], Hit)

\* Mutant: the masks compare against 1-based channel numbers
channel_indices_OneBased(self, X) ==
    LET c == [r \in 1..Len(X) |-> Long(X[r][1])]
        m == [j \in 1..self.output_dims |-> [r \in 1..Len(X) |-> c[r] = j]]
    IN  [j \in 1..self.output_dims |-> Nonzero(m[j])]

channel_indices(self, X) ==
    LET c == [r \in 1..Len(X) |-> Long(X[r][1])]
        m == [j \in 1..self.output_dims |-> [r \in 1..Len(X) |-> c[r] = j - 1]]
    IN  [j \in 1..self.output_dims |-> Nonzero(m[j])]

----------------------------------------------------------------------------
(* gpr/likelihood.py : the per-channel likelihoods, as seen by              *)
(* MultiOutputLikelihood.  Every operation of a likelihood works data point *)
(* by data point: its result for a data point is a term naming the          *)
(* operation, the likelihood and that point's inputs.  A tensor is the      *)
(* sequence of its data points (the rows of y, f, mu, var; the columns of   *)
(* the samples f handed to sample).                                        *)

Term(op, kind, a, b, q) == [op |-> op, kind |-> kind, a |-> a, b |-> b, q |-> q]

\* An entry of torch.empty(...) that was never written
Uninit == Term("uninit", "", 0, 0, 0)

Empty(n) == [p \in 1..n |-> Uninit]

ChildLogProb(kind, y, f) == [a \in 1..Len(f) |-> Term("log_prob", kind, y[a], f[a], 0)]
ChildMean(kind, f)       == [a \in 1..Len(f) |-> Term("mean", kind, f[a], 0, 0)]
ChildVariance(kind, f)   == [a \in 1..Len(f) |-> Term("variance", kind, f[a], 0, 0)]
ChildSample(kind, f)     == [a \in 1..Len(f) |-> Term("sample", kind, f[a], 0, 0)]

\* The scalar a likelihood's variational_expectation returns for its data points
ChildVarExp(kind, y, mu, var) ==
    [op |-> "variational_expectation", kind |-> kind, y |-> y, mu |-> mu, var |-> var]

\* Optional arguments of predict: ci in percent, sigma
NoCI == [given |-> FALSE, lo |-> 0, hi |-> 0]
CI(lo, hi) == [given |-> TRUE, lo |-> lo, hi |-> hi]
NoSigma == [given |-> FALSE, val |-> 0]
Sigma(v) == [given |-> TRUE, val |-> v]

\* int(c*n + 0.5) for c given in percent
QuantileIndex(c, n) == (2 * c * n + 100) \div 200

Point(mean) == [err |-> "none", shape |-> "point", mean |-> mean, lower |-> <<>>, upper |-> <<>>]
Triple(mean, lower, upper) ==
    [err |-> "none", shape |-> "triple", mean |-> mean, lower |-> lower, upper |-> upper]

\* Likelihood.predict: the quadrature mean, and with ci the quantiles of n
\* sorted samples at the indices int(ci[0]*n+0.5) and int(ci[1]*n+0.5)
Likelihood_predict(kind, mu, var, ci, sigma, n) ==
    LET mean == [a \in 1..Len(mu) |-> Term("predict", kind, mu[a], var[a], 0)]
        lower == QuantileIndex(ci.lo, n)
        upper == QuantileIndex(ci.hi, n)
    IN  IF ~ci.given THEN Point(mean)
        ELSE IF lower >= n \/ upper >= n THEN Raise("IndexError")
        ELSE Triple(mean,
                    [a \in 1..Len(mu) |-> Term("quantile", kind, mu[a], var[a], lower)],
                    [a \in 1..Len(mu) |-> Term("quantile", kind, mu[a], var[a], upper)])

\* GaussianLikelihood.predict
GaussianLikelihood_predict(kind, mu, var, ci, sigma, n) ==
    LET mean == [a \in 1..Len(mu) |-> Term("predict", kind, mu[a], var[a], 0)]
    IN  IF ~ci.given /\ ~sigma.given THEN Point(mean)
        ELSE IF ~sigma.given
        THEN Raise("TypeError")                 \* torch.sqrt(2.0) of a Python float
        ELSE Triple(mean,
                    [a \in 1..Len(mu) |-> Term("mu-sigma*scale", kind, mu[a], sigma.val, 0)],
                    [a \in 1..Len(mu) |-> Term("mu+sigma*scale", kind, mu[a], sigma.val, 0)])

\* BernoulliLikelihood.predict with its default link inv_probit
BernoulliLikelihood_predict(kind, mu, var, ci, sigma, n) ==
    LET p == [a \in 1..Len(mu) |-> Term("predict", kind, mu[a], var[a], 0)]
    IN  IF ~ci.given /\ ~sigma.given THEN Point(p) ELSE Triple(p, p, p)

\* self.likelihoods[i].predict(...): the method of the item's class
ChildPredict(kind, mu, var, ci, sigma, n) ==
    IF kind = "GaussianLikelihood" THEN GaussianLikelihood_predict(kind, mu, var, ci, sigma, n)
    ELSE IF kind = "BernoulliLikelihood" THEN BernoulliLikelihood_predict(kind, mu, var, ci, sigma, n)
    ELSE Likelihood_predict(kind, mu, var, ci, sigma, n)

----------------------------------------------------------------------------
(* gpr/likelihood.py : MultiOutputLikelihood's operations                  *)

\* T[idx] for a list idx of 0-based positions
Gather(T, idx) == [a \in 1..Len(idx) |-> T[idx[a] + 1]]

\* Mutant: the values are written to the first positions, not to idx
Scatter_Positional(res, idx, vals) ==
    [p \in 1..Len(res) |-> IF p <= Len(vals) THEN vals[p] ELSE res[p]]

\* res[idx] = vals for a list idx of distinct 0-based positions
Scatter(res, idx, vals) ==
    [p \in 1..Len(res) |->
        IF \E a \in 1..Len(idx) : idx[a] = p - 1
        THEN vals[CHOOSE a \in 1..Len(idx) : idx[a] = p - 1]
        ELSE res[p]]

\* The loops "for i in range(self.output_dims)" of log_prob, mean, variance
\* and sample, from channel i (1-based here) on
RECURSIVE LogProbLoop(_, _, _, _, _, _)
LogProbLoop(self, r, y, f, i, res) ==
    IF i > self.output_dims THEN res
    ELSE LogProbLoop(self, r, y, f, i + 1,
            Scatter(res, r[i],
                    ChildLogProb(self.likelihoods[i], Gather(y, r[i]), Gather(f, r[i]))))

RECURSIVE MeanLoop(_, _, _, _, _)
MeanLoop(self, r, f, i, res) ==
    IF i > self.output_dims THEN res
    ELSE MeanLoop(self, r, f, i + 1,
            Scatter(res, r[i], ChildMean(self.likelihoods[i], Gather(f, r[i]))))

RECURSIVE VarianceLoop(_, _, _, _, _)
VarianceLoop(self, r, f, i, res) ==
    IF i > self.output_dims THEN res
    ELSE VarianceLoop(self, r, f, i + 1,
            Scatter(res, r[i], ChildVariance(self.likelihoods[i], Gather(f, r[i]))))

\* sample writes into f itself
RECURSIVE SampleLoop(_, _, _, _)
SampleLoop(self, r, i, f) ==
    IF i > self.output_dims THEN f
    ELSE SampleLoop(self, r, i + 1,
            Scatter(f, r[i], ChildSample(self.likelihoods[i], Gather(f, r[i]))))

\* q += ... : the sum, in channel order, of the channels' scalars
RECURSIVE VarExpLoop(_, _, _, _, _, _, _)
VarExpLoop(self, r, y, mu, var, i, q) ==
    IF i > self.output_dims THEN q
    ELSE VarExpLoop(self, r, y, mu, var, i + 1,
            Append(q, ChildVarExp(self.likelihoods[i],
                                  Gather(y, r[i]), Gather(mu, r[i]), Gather(var, r[i]))))

MOL_log_prob(self, y, f, X) ==
    [err |-> "none", res |-> LogProbLoop(self, channel_indices(self, X), y, f, 1, Empty(Len(f)))]

MOL_mean(self, f, X) ==
    [err |-> "none", res |-> MeanLoop(self, channel_indices(self, X), f, 1, Empty(Len(f)))]

MOL_variance(self, f, X) ==
    [err |-> "none", res |-> VarianceLoop(self, channel_indices(self, X), f, 1, Empty(Len(f)))]

MOL_sample(self, f, X) ==
    [err |-> "none", res |-> SampleLoop(self, channel_indices(self, X), 1, f)]

MOL_variational_expectation(self, y, mu, var, X) ==
    [err |-> "none", res |-> VarExpLoop(self, channel_indices(self, X), y, mu, var, 1, <<>>)]

\* predict, ci is None: res[r[i],:] = self.likelihoods[i].predict(...)
RECURSIVE PredictPointLoop(_, _, _, _, _, _, _, _)
PredictPointLoop(self, r, mu, var, ci, sigma, n, st) ==
    IF st.i > self.output_dims THEN Point(st.res)
    ELSE LET p == ChildPredict(self.likelihoods[st.i],
                               Gather(mu, r[st.i]), Gather(var, r[st.i]), ci, sigma, n)
         IN  IF p.err # "none" THEN Raise(p.err)
             ELSE IF p.shape # "point"
             THEN Raise("TypeError")            \* a tuple assigned into a tensor
             ELSE PredictPointLoop(self, r, mu, var, ci, sigma, n,
                     [i |-> st.i + 1, res |-> Scatter(st.res, r[st.i], p.mean)])

\* predict, ci given: res[r[i],:], lower[r[i],:], upper[r[i],:] = ...predict(...)
RECURSIVE PredictTripleLoop(_, _, _, _, _, _, _, _)
PredictTripleLoop(self, r, mu, var, ci, sigma, n, st) ==
    IF st.i > self.output_dims THEN Triple(st.res, st.lower, st.upper)
    ELSE LET p == ChildPredict(self.likelihoods[st.i],
                               Gather(mu, r[st.i]), Gather(var, r[st.i]), ci, sigma, n)
         IN  IF p.err # "none" THEN Raise(p.err)
             ELSE PredictTripleLoop(self, r, mu, var, ci, sigma, n,
                     [i |-> st.i + 1,
                      res |-> Scatter(st.res, r[st.i], p.mean),
                      lower |-> Scatter(st.lower, r[st.i], p.lower),
                      upper |-> Scatter(st.upper, r[st.i], p.upper)])

MOL_predict(self, mu, var, ci, sigma, n, X) ==
    LET r == channel_indices(self, X)
        e == Empty(Len(mu))
    IN  IF ~ci.given
        THEN PredictPointLoop(self, r, mu, var, ci, sigma, n, [i |-> 1, res |-> e])
        ELSE PredictTripleLoop(self, r, mu, var, ci, sigma, n,
                               [i |-> 1, res |-> e, lower |-> e, upper |-> e])

----------------------------------------------------------------------------
(* The callers of a MultiOutputLikelihood.                                 *)

\* The per-data-point inputs of a call on n data points
YOf(n)   == [p \in 1..n |-> XVal(1, p, 0)]
FOf(n)   == [p \in 1..n |-> XVal(2, p, 0)]
MuOf(n)  == [p \in 1..n |-> XVal(3, p, 0)]
VarOf(n) == [p \in 1..n |-> XVal(4, p, 0)]

\* Every row of X is taken by one of the channels of self
Routed(self, chan) ==
    \A p \in 1..Len(chan) : Long(chan[p]) \in 0..(self.output_dims - 1)

CIs == {NoCI, CI(25, 75), CI(0, 100)}
Sigmas == {NoSigma, Sigma(2)}

Idle == call.op = "none"

Construct ==
    /\ Idle
    /\ ~mol.built
    /\ \E args \in ArgTuples :
        LET made == MOL_init(args) IN
        /\ call' = [op |-> "MultiOutputLikelihood", args |-> args]
        /\ ret' = made
        /\ mol' = IF made.err = "none"
                  THEN [built |-> TRUE, output_dims |-> made.output_dims,
                        likelihoods |-> made.likelihoods]
                  ELSE mol
        /\ UNCHANGED <<orig, fbuf, lik, obj, ker, ds>>

CallChannelIndices ==
    /\ Idle
    /\ mol.built
    /\ \E chan \in XRows :
        /\ call' = [op |-> "_channel_indices", X |-> MkX(chan)]
        /\ ret' = [err |-> "none", r |-> channel_indices(mol, MkX(chan))]
        /\ UNCHANGED <<orig, mol, fbuf, lik, obj, ker, ds>>

CallLogProb ==
    /\ Idle
    /\ mol.built
    /\ \E chan \in XRows :
        /\ Routed(mol, chan)
        /\ LET n == Len(chan) IN
            /\ call' = [op |-> "log_prob", y |-> YOf(n), f |-> FOf(n), X |-> MkX(chan)]
            /\ ret' = MOL_log_prob(mol, YOf(n), FOf(n), MkX(chan))
        /\ UNCHANGED <<orig, mol, fbuf, lik, obj, ker, ds>>

CallMean ==
    /\ Idle
    /\ mol.built
    /\ \E chan \in XRows :
        /\ Routed(mol, chan)
        /\ LET n == Len(chan) IN
            /\ call' = [op |-> "mean", f |-> FOf(n), X |-> MkX(chan)]
            /\ ret' = MOL_mean(mol, FOf(n), MkX(chan))
        /\ UNCHANGED <<orig, mol, fbuf, lik, obj, ker, ds>>

CallVariance ==
    /\ Idle
    /\ mol.built
    /\ \E chan \in XRows :
        /\ Routed(mol, chan)
        /\ LET n == Len(chan) IN
            /\ call' = [op |-> "variance", f |-> FOf(n), X |-> MkX(chan)]
            /\ ret' = MOL_variance(mol, FOf(n), MkX(chan))
        /\ UNCHANGED <<orig, mol, fbuf, lik, obj, ker, ds>>

\* sample is handed the caller's tensor f and writes into it
CallSample ==
    /\ Idle
    /\ mol.built
    /\ \E chan \in XRows :
        /\ Routed(mol, chan)
        /\ LET n == Len(chan)
               out == MOL_sample(mol, FOf(n), MkX(chan))
           IN
            /\ call' = [op |-> "sample", f |-> FOf(n), X |-> MkX(chan)]
            /\ ret' = out
            /\ fbuf' = out.res
        /\ UNCHANGED <<orig, mol, lik, obj, ker, ds>>

CallVarExp ==
    /\ Idle
    /\ mol.built
    /\ \E chan \in XRows :
        /\ Routed(mol, chan)
        /\ LET n == Len(chan) IN
            /\ call' = [op |-> "variational_expectation",
                        y |-> YOf(n), mu |-> MuOf(n), var |-> VarOf(n), X |-> MkX(chan)]
            /\ ret' = MOL_variational_expectation(mol, YOf(n), MuOf(n), VarOf(n), MkX(chan))
        /\ UNCHANGED <<orig, mol, fbuf, lik, obj, ker, ds>>

CallPredict ==
    /\ Idle
    /\ mol.built
    /\ \E chan \in XRows, ci \in CIs, sigma \in Sigmas :
        /\ Routed(mol, chan)
        /\ LET n == Len(chan) IN
            /\ call' = [op |-> "predict", mu |-> MuOf(n), var |-> VarOf(n),
                        ci |-> ci, sigma |-> sigma, n |-> NSamples, X |-> MkX(chan)]
            /\ ret' = MOL_predict(mol, MuOf(n), VarOf(n), ci, sigma, NSamples, MkX(chan))
        /\ UNCHANGED <<orig, mol, fbuf, lik, obj, ker, ds>>

\* The caller is done with the result; the instance lives on.
ReturnMOL ==
    /\ ~Idle
    /\ call' = NoCall
    /\ ret' = NoRet
    /\ fbuf' = NoBuf
    /\ UNCHANGED <<orig, mol, lik, obj, ker, ds>>

NextMOL ==
    \/ Construct
    \/ CallChannelIndices
    \/ CallLogProb
    \/ CallMean
    \/ CallVariance
    \/ CallSample
    \/ CallVarExp
    \/ CallPredict
    \/ ReturnMOL

SpecMOL == Init /\ [][NextMOL]_vars

----------------------------------------------------------------------------
(* Claims about MultiOutputLikelihood, checked under SpecMOL.              *)

\* The likelihoods a constructor call supplies: the items of a single list
\* argument, else the positional arguments
Supplied(args) ==
    IF Len(args) = 1 /\ args[1].cls = "list" THEN args[1].items ELSE args

LikelihoodClasses == LikKinds \cup {"Likelihood", "MultiOutputLikelihood"}

\* C6: the constructor raises ValueError when no likelihood is supplied (no
\* argument or an empty list), when an element is not a Likelihood and when an
\* element is a MultiOutputLikelihood; otherwise it succeeds with output_dims
\* the number of likelihoods supplied and the likelihoods in the given order.
C6_Construct ==
    call.op = "MultiOutputLikelihood" =>
        LET sup == Supplied(call.args) IN
        IF \/ Len(sup) = 0
           \/ \E i \in 1..Len(sup) : sup[i].cls \notin LikelihoodClasses
           \/ \E i \in 1..Len(sup) : sup[i].cls = "MultiOutputLikelihood"
        THEN ret.err = "ValueError" /\ ~mol.built
        ELSE /\ ret.err = "none"
             /\ mol.built
             /\ mol.output_dims = Len(sup)
             /\ mol.likelihoods = [i \in 1..Len(sup) |-> sup[i].cls]

C6_Witness ==
    /\ call.op = "MultiOutputLikelihood"
    /\ call.args = <<ListObj(<<Obj("PoissonLikelihood"), Obj("GaussianLikelihood")>>)>>
    /\ mol.built
    /\ mol.output_dims = 2
    /\ mol.likelihoods = <<"PoissonLikelihood", "GaussianLikelihood">>

\* X is channel-augmented for C channels: column 0 holds integers in [0, C)
ChannelAugmented(X, C) ==
    \A p \in 1..Len(X) : X[p][1] \in {2 * j : j \in 0..(C - 1)}

SeqSet(q) == {q[a] : a \in 1..Len(q)}

\* C7: _channel_indices returns output_dims index sets; set j holds, in
\* increasing order, exactly the rows whose column 0 is j (none: an empty
\* set); the sets are pairwise disjoint and every row is in exactly one.
C7_ChannelPartition ==
    (call.op = "_channel_indices" /\ ChannelAugmented(call.X, mol.output_dims)) =>
        LET r == ret.r
            C == mol.output_dims
            n == Len(call.X)
        IN  /\ Len(r) = C
            /\ \A j \in 1..C :
                 /\ \A a \in 1..Len(r[j]) : \A b \in 1..Len(r[j]) : a < b => r[j][a] < r[j][b]
                 /\ SeqSet(r[j]) = {p \in 0..(n - 1) : call.X[p + 1][1] = 2 * (j - 1)}
            /\ \A j \in 1..C : \A k \in 1..C : j # k => SeqSet(r[j]) \cap SeqSet(r[k]) = {}
            /\ \A p \in 0..(n - 1) : Cardinality({j \in 1..C : p \in SeqSet(r[j])}) = 1

C7_Witness ==
    /\ call.op = "_channel_indices"
    /\ mol.output_dims = 2
    /\ Len(call.X) = 3
    /\ call.X[1][1] = 2 /\ call.X[2][1] = 0 /\ call.X[3][1] = 2
    /\ ret.r = << <<1>>, <<0, 2>> >>

\* The likelihood of the channel of row p (1-based) of the call's X
KindOfRow(p) == mol.likelihoods[(call.X[p][1] \div 2) + 1]

\* The rows (1-based, in row order) of channel j (0-based) of the call's X
RowsOfChannel(j) ==
    LET InChannel(p) == call.X[p][1] = 2 * j
    IN  SelectSeq([p \in 1..Len(call.X) |-> p], InChannel)

\* What predict of row p's likelihood returns for row p alone
AloneAt(p) ==
    ChildPredict(KindOfRow(p), <<call.mu[p]>>, <<call.var[p]>>, call.ci, call.sigma, call.n)

----------------------------------------------------------------------------
(* gpr/likelihood.py : floating-point values.                              *)
(*                                                                         *)
(* A float is NaN or a number kept in half units (v = 3 is 1.5).  Every     *)
(* comparison with NaN is false, except != which is true.                  *)

F(v) == [nan |-> FALSE, v |-> v]
NaN  == [nan |-> TRUE, v |-> 0]

Lt(a, b) == ~a.nan /\ ~b.nan /\ a.v < b.v
Le(a, b) == ~a.nan /\ ~b.nan /\ a.v <= b.v
Eq(a, b) == ~a.nan /\ ~b.nan /\ a.v = b.v
Ne(a, b) == ~Eq(a, b)

Zero == F(0)
One  == F(2)

\* y.long() of one entry: truncation; the conversion of NaN is undefined and
\* gives whatever integer g the build produces
LongF(x, g) == IF x.nan THEN g ELSE Long(x.v)

\* The integer i as a float
ToFloat(i) == F(2 * i)

\* The outcomes of converting NaN to an integer
Garbage == {0, -4}

\* The entries of y: -1.0 .. MaxHalf/2 in steps of 0.5, and NaN
YVals == {F(v) : v \in -2..MaxHalf} \cup {NaN}
YVecs == UNION {[1..n -> YVals] : n \in 0..MaxN}

----------------------------------------------------------------------------
(* gpr/likelihood.py : validate_y                                          *)

\* Mutant: the integer check is left out
PoissonLikelihood_validate_y_NoIntCheck(y, g) ==
    IF \E p \in 1..Len(y) : Lt(y[p], Zero)
    THEN Raise("ValueError")
    ELSE [err |-> "none"]

PoissonLikelihood_validate_y(y, g) ==
    IF \E p \in 1..Len(y) : Lt(y[p], Zero)
    THEN Raise("ValueError")
    ELSE IF ~(\A p \in 1..Len(y) : Eq(y[p], ToFloat(LongF(y[p], g))))
    THEN Raise("ValueError")
    ELSE [err |-> "none"]

BernoulliLikelihood_validate_y(y) ==
    IF \E p \in 1..Len(y) : Ne(y[p], Zero) /\ Ne(y[p], One)
    THEN Raise("ValueError")
    ELSE [err |-> "none"]

BetaLikelihood_validate_y(y) ==
    IF \E p \in 1..Len(y) : Le(y[p], Zero) \/ Le(One, y[p])
    THEN Raise("ValueError")
    ELSE [err |-> "none"]

LogLogisticLikelihood_validate_y(y) ==
    IF \E p \in 1..Len(y) : Lt(y[p], Zero)
    THEN Raise("ValueError")
    ELSE [err |-> "none"]

----------------------------------------------------------------------------
(* gpr/likelihood.py : moments of StudentTLikelihood and                   *)
(* LogLogisticLikelihood.  Parameters dof, scale and shape are in half     *)
(* units; a variance is NaN or the exact fraction num/den.                 *)

Rat(num, den) == [nan |-> FALSE, num |-> num, den |-> den]
RatNaN == [nan |-> TRUE, num |-> 0, den |-> 1]

\* Mutant: the mean is undefined only below dof = 1
StudentTLikelihood_mean_Strict(self, f) ==
    IF self.dof < 2
    THEN [p \in 1..Len(f) |-> NaN]
    ELSE f

StudentTLikelihood_mean(self, f) ==
    IF self.dof <= 2                       \* self.dof <= 1.0
    THEN [p \in 1..Len(f) |-> NaN]
    ELSE f

\* scale^2 * dof / (dof - 2) with scale = s/2 and dof = d/2 is s^2*d / (4*(d-4))
StudentTLikelihood_variance(self, f) ==
    IF self.dof <= 4                       \* self.dof <= 2.0
    THEN RatNaN
    ELSE Rat(self.scale * self.scale * self.dof, 4 * (self.dof - 4))

\* link(f)^2 * (1/sinc(2/shape) - 1/sinc(1/shape)^2): a number for shape > 2,
\* kept as a term of f and shape
LogLogisticLikelihood_variance(self, f) ==
    IF self.shape <= 4                     \* self.shape() <= 2.0
    THEN [nan |-> TRUE, val |-> <<>>]
    ELSE [nan |-> FALSE, val |-> [p \in 1..Len(f) |-> <<"link(f)^2*(a-b^2)", f[p].v, self.shape>>]]

----------------------------------------------------------------------------
(* The callers of a single-output likelihood.                              *)

Halves == 1..MaxHalf

\* The default of the constructor's link argument, for the classes that have one
DefaultLink(c) ==
    IF c \in {"BernoulliLikelihood", "BetaLikelihood"} THEN "inv_probit"
    ELSE IF c \in {"ExponentialLikelihood", "GammaLikelihood", "PoissonLikelihood",
                   "WeibullLikelihood", "LogLogisticLikelihood"} THEN "exp"
    ELSE "none"

\* Likelihood(...) constructors: dof is any positive number, scale and shape
\* are Parameters above positive_minimum
Liks ==
    {[cls |-> c, dof |-> 0, scale |-> 0, shape |-> 0, link |-> DefaultLink(c)] :
        c \in {"PoissonLikelihood", "BernoulliLikelihood", "BetaLikelihood"}}
    \cup {[cls |-> "StudentTLikelihood", dof |-> d, scale |-> sc, shape |-> 0, link |-> "none"] :
            d \in Halves, sc \in {1, 2, 3}}
    \cup {[cls |-> "LogLogisticLikelihood", dof |-> 0, scale |-> 0, shape |-> h, link |-> "exp"] :
            h \in Halves}

\* Latent values f: finite floats
FVecs == UNION {[1..n -> {F(v) : v \in {-1, 0, 3}}] : n \in 0..MaxN}

ConstructLik ==
    /\ Idle
    /\ \E l \in Liks : lik' = l
    /\ UNCHANGED <<call, ret, orig, mol, fbuf, obj, ker, ds>>

CallValidateY ==
    /\ Idle
    /\ lik.cls \in {"PoissonLikelihood", "BernoulliLikelihood", "BetaLikelihood",
                    "LogLogisticLikelihood"}
    /\ \E y \in YVecs, g \in Garbage :
        /\ call' = [op |-> "validate_y", y |-> y]
        /\ ret' = IF lik.cls = "PoissonLikelihood" THEN PoissonLikelihood_validate_y(y, g)
                  ELSE IF lik.cls = "BernoulliLikelihood" THEN BernoulliLikelihood_validate_y(y)
                  ELSE IF lik.cls = "BetaLikelihood" THEN BetaLikelihood_validate_y(y)
                  ELSE LogLogisticLikelihood_validate_y(y)
        /\ UNCHANGED <<orig, mol, fbuf, lik, obj, ker, ds>>

CallLikMean ==
    /\ Idle
    /\ lik.cls = "StudentTLikelihood"
    /\ \E f \in FVecs :
        /\ call' = [op |-> "mean", f |-> f]
        /\ ret' = [err |-> "none", val |-> StudentTLikelihood_mean(lik, f)]
        /\ UNCHANGED <<orig, mol, fbuf, lik, obj, ker, ds>>

CallLikVariance ==
    /\ Idle
    /\ lik.cls \in {"StudentTLikelihood", "LogLogisticLikelihood"}
    /\ \E f \in FVecs :
        /\ call' = [op |-> "variance", f |-> f]
        /\ ret' = [err |-> "none",
                   val |-> IF lik.cls = "StudentTLikelihood"
                           THEN StudentTLikelihood_variance(lik, f)
                           ELSE LogLogisticLikelihood_variance(lik, f)]
        /\ UNCHANGED <<orig, mol, fbuf, lik, obj, ker, ds>>

ReturnLik ==
    /\ ~Idle
    /\ call' = NoCall
    /\ ret' = NoRet
    /\ UNCHANGED <<orig, mol, fbuf, lik, obj, ker, ds>>

NextLik == ConstructLik \/ CallValidateY \/ CallLikMean \/ CallLikVariance \/ ReturnLik

SpecLik == Init /\ [][NextLik]_vars

----------------------------------------------------------------------------
(* Claims about the single-output likelihoods, checked under SpecLik.      *)

IsValidate(cls) == call.op = "validate_y" /\ lik.cls = cls

\* C9: validate_y raises exactly when an entry is outside the support:
\* Poisson iff an entry is negative or not an integer, Bernoulli iff an entry
\* is neither 0 nor 1, Beta iff an entry is <= 0 or >= 1; otherwise it returns.
C9_ValidateY ==
    /\ IsValidate("PoissonLikelihood") =>
          /\ ret.err \in {"ValueError", "none"}
          /\ ret.err = "ValueError" <=>
                \E p \in 1..Len(call.y) :
                    \/ call.y[p].nan
                    \/ call.y[p].v < 0
                    \/ call.y[p].v % 2 # 0
    /\ IsValidate("BernoulliLikelihood") =>
          /\ ret.err \in {"ValueError", "none"}
          /\ ret.err = "ValueError" <=>
                \E p \in 1..Len(call.y) : call.y[p] \notin {F(0), F(2)}
    /\ IsValidate("BetaLikelihood") =>
          /\ ret.err \in {"ValueError", "none"}
          /\ ret.err = "ValueError" <=>
                \E p \in 1..Len(call.y) :
                    ~call.y[p].nan /\ (call.y[p].v <= 0 \/ call.y[p].v >= 2)

C9_Witness ==
    /\ IsValidate("PoissonLikelihood")
    /\ call.y = <<F(2), F(4), F(-2)>>
    /\ ret.err = "ValueError"

\* C24: LogLogisticLikelihood.validate_y enforces the support (0, inf): it
\* raises for every y with an entry <= 0, an entry equal to 0 included, and
\* returns for every y whose entries are all strictly positive.
C24_LogLogisticSupport ==
    IsValidate("LogLogisticLikelihood") =>
        /\ ret.err \in {"ValueError", "none"}
        /\ (\E p \in 1..Len(call.y) : ~call.y[p].nan /\ call.y[p].v <= 0)
              => ret.err = "ValueError"
        /\ (\A p \in 1..Len(call.y) : ~call.y[p].nan /\ call.y[p].v > 0)
              => ret.err = "none"

\* C10: undefined moments are returned as NaN, not raised: StudentT's mean
\* is NaN at every data point iff dof <= 1 and is f otherwise; StudentT's
\* variance is NaN iff dof <= 2 and is scale^2*dof/(dof-2) otherwise;
\* LogLogistic's variance is NaN iff shape <= 2.
C10_Moments ==
    /\ (call.op = "mean" /\ lik.cls = "StudentTLikelihood") =>
          /\ ret.err = "none"
          /\ Len(ret.val) = Len(call.f)
          /\ IF lik.dof <= 2
             THEN \A p \in 1..Len(call.f) : ret.val[p].nan
             ELSE ret.val = call.f /\ \A p \in 1..Len(call.f) : ~ret.val[p].nan
    /\ (call.op = "variance" /\ lik.cls = "StudentTLikelihood") =>
          /\ ret.err = "none"
          /\ ret.val.nan <=> lik.dof <= 4
          /\ ~ret.val.nan =>
                \* val * (dof - 2) = scale^2 * dof, in half units
                /\ ret.val.den # 0
                /\ 4 * ret.val.num * (lik.dof - 4) = lik.scale * lik.scale * lik.dof * ret.val.den
    /\ (call.op = "variance" /\ lik.cls = "LogLogisticLikelihood") =>
          /\ ret.err = "none"
          /\ ret.val.nan <=> lik.shape <= 4

C10_Witness ==
    /\ call.op = "mean"
    /\ lik.cls = "StudentTLikelihood"
    /\ lik.dof = 2
    /\ Len(call.f) = 2
    /\ ret.val = <<NaN, NaN>>

----------------------------------------------------------------------------
(* gpr/likelihood.py : sample and predict of the single-output             *)
(* likelihoods.  The samples a likelihood draws are a nondeterministic     *)
(* n x N matrix of values; everything predict does with them is computed.  *)

MaxPts == 2

AllKinds ==
    {"GaussianLikelihood", "StudentTLikelihood", "ExponentialLikelihood",
     "LaplaceLikelihood", "BernoulliLikelihood", "BetaLikelihood",
     "GammaLikelihood", "PoissonLikelihood", "WeibullLikelihood",
     "LogLogisticLikelihood", "LogGaussianLikelihood", "ChiSquaredLikelihood"}

\* The classes whose sample() is raise NotImplementedError()
NoSampleKinds == {"LogLogisticLikelihood", "ChiSquaredLikelihood"}

SampleVals == {0, 1}

\* n draws for each of N data points: samples_y[k][a]
Draws(n, N) == [1..n -> [1..N -> SampleVals]]

\* Mutant: every class has a sampler
Likelihood_sample_AllImplemented(self, drawn) ==
    [err |-> "none", val |-> drawn]

\* self.sample(f): the class's sampler
Likelihood_sample(self, drawn) ==
    IF self.cls \in NoSampleKinds
    THEN Raise("NotImplementedError")
    ELSE [err |-> "none", val |-> drawn]

\* s with v put before its first element greater than v
RECURSIVE Insert(_, _)
Insert(s, v) ==
    IF s = <<>> THEN <<v>>
    ELSE IF v <= Head(s) THEN <<v>> \o s
    ELSE <<Head(s)>> \o Insert(Tail(s), v)

RECURSIVE SortAscending(_)
SortAscending(s) == IF s = <<>> THEN <<>> ELSE Insert(SortAscending(Tail(s)), Head(s))

Column(M, a) == [k \in 1..Len(M) |-> M[k][a]]

\* Mutant: the samples are used as drawn
SortDim0_Unsorted(M, N) == M

\* samples_y.sort(dim=0): every column sorted ascending on its own
SortDim0(M, N) ==
    [k \in 1..Len(M) |-> [a \in 1..N |-> SortAscending(Column(M, a))[k]]]

\* Likelihood.predict on N data points, given what the sampler draws
MonteCarlo_predict(self, mu, var, ci, sigma, n, drawn) ==
    LET mean == [a \in 1..Len(mu) |-> Term("predict", self.cls, mu[a], var[a], 0)]
        samples_y == Likelihood_sample(self, drawn)
        lower == QuantileIndex(ci.lo, n)
        upper == QuantileIndex(ci.hi, n)
    IN  IF ~ci.given THEN Point(mean)
        ELSE IF samples_y.err # "none" THEN Raise(samples_y.err)
        ELSE IF lower >= n \/ upper >= n THEN Raise("IndexError")
        ELSE LET sorted == SortDim0(samples_y.val, Len(mu))
             IN  Triple(mean, sorted[lower + 1], sorted[upper + 1])

\* torch.distributions.normal.Normal(loc, scale): scale is the standard
\* deviation
Normal(loc, scale) == [loc |-> loc, scale |-> scale]

\* An argument passed on as it is
Same(v) == Term("same", "", v, 0, 0)
NoNormal == Normal(<<>>, <<>>)

\* The distribution Likelihood.predict draws samples_f from: by then mu holds
\* the quadrature mean, and var is passed as the scale
samples_f_distribution(self, mu, var) ==
    LET mean == [a \in 1..Len(mu) |-> Term("predict", self.cls, mu[a], var[a], 0)]
    IN  Normal(mean, [a \in 1..Len(var) |-> Same(var[a])])

\* Whether the call goes through Likelihood.predict
UsesBasePredict(self) ==
    /\ self.cls # "GaussianLikelihood"
    /\ self.cls = "BernoulliLikelihood" => self.link # "inv_probit"

\* obj.predict(...): the method of the instance's class
predict(self, mu, var, ci, sigma, n, drawn) ==
    IF self.cls = "GaussianLikelihood"
    THEN GaussianLikelihood_predict(self.cls, mu, var, ci, sigma, n)
    ELSE IF ~UsesBasePredict(self)
    THEN BernoulliLikelihood_predict(self.cls, mu, var, ci, sigma, n)
    ELSE MonteCarlo_predict(self, mu, var, ci, sigma, n, drawn)

----------------------------------------------------------------------------
(* The callers of sample and predict.                                      *)

PredictLiks ==
    {[cls |-> c, dof |-> 0, scale |-> 0, shape |-> 0, link |-> DefaultLink(c)] : c \in AllKinds}
    \cup {[cls |-> "BernoulliLikelihood", dof |-> 0, scale |-> 0, shape |-> 0, link |-> "inv_logit"]}

PredictCIs == {NoCI, CI(25, 75), CI(25, 50), CI(0, 100)}

\* The argument n of predict: the number of samples drawn per data point
Ns == {2, 4}

ConstructPredictLik ==
    /\ Idle
    /\ \E l \in PredictLiks : lik' = l
    /\ UNCHANGED <<call, ret, orig, mol, fbuf, obj, ker, ds>>

CallSampleOne ==
    /\ Idle
    /\ lik.cls \in AllKinds
    /\ \E N \in 0..MaxPts, n \in Ns :
        \E drawn \in Draws(n, N) :
            /\ call' = [op |-> "sample", n |-> n, N |-> N]
            /\ ret' = Likelihood_sample(lik, drawn)
            /\ UNCHANGED <<orig, mol, fbuf, lik, obj, ker, ds>>

CallPredictOne ==
    /\ Idle
    /\ lik.cls \in AllKinds
    /\ \E N \in 0..MaxPts, n \in Ns, ci \in PredictCIs, sigma \in Sigmas :
        \E drawn \in Draws(n, N) :
            LET out == predict(lik, MuOf(N), VarOf(N), ci, sigma, n, drawn) IN
            /\ call' = [op |-> "predict", mu |-> MuOf(N), var |-> VarOf(N),
                        ci |-> ci, sigma |-> sigma, n |-> n,
                        \* the distribution the latent samples were drawn from
                        samples_f |-> IF UsesBasePredict(lik) /\ ci.given
                                      THEN samples_f_distribution(lik, MuOf(N), VarOf(N))
                                      ELSE NoNormal,
                        \* what self.sample returned to a call that went on to return
                        samples_y |-> IF UsesBasePredict(lik) /\ out.err = "none"
                                         /\ out.shape = "triple"
                                      THEN drawn ELSE <<>>]
            /\ ret' = out
            /\ UNCHANGED <<orig, mol, fbuf, lik, obj, ker, ds>>

ReturnPredict ==
    /\ ~Idle
    /\ call' = NoCall
    /\ ret' = NoRet
    /\ UNCHANGED <<orig, mol, fbuf, lik, obj, ker, ds>>

NextPredict == ConstructPredictLik \/ CallSampleOne \/ CallPredictOne \/ ReturnPredict

SpecPredict == Init /\ [][NextPredict]_vars

----------------------------------------------------------------------------
(* Claims about sample and predict, checked under SpecPredict.             *)

\* C11: for LogLogisticLikelihood and ChiSquaredLikelihood sample always
\* raises NotImplementedError, predict with ci given raises the same error,
\* and predict without ci returns the point prediction.
C11_NotImplemented ==
    lik.cls \in {"LogLogisticLikelihood", "ChiSquaredLikelihood"} =>
        /\ call.op = "sample" => ret.err = "NotImplementedError"
        /\ (call.op = "predict" /\ call.ci.given) => ret.err = "NotImplementedError"
        /\ (call.op = "predict" /\ ~call.ci.given) =>
              /\ ret.err = "none"
              /\ ret.shape = "point"
              /\ Len(ret.mean) = Len(call.mu)

C11_Witness ==
    /\ lik.cls = "ChiSquaredLikelihood"
    /\ call.op = "predict"
    /\ call.ci = CI(25, 75)
    /\ Len(call.mu) = 2
    /\ ret.err = "NotImplementedError"

----------------------------------------------------------------------------
(* gpr/likelihood.py : a Likelihood instance as a Python object.           *)
(*                                                                         *)
(* An attribute slot says where torch.nn.Module keeps the attribute (the   *)
(* instance dict, _parameters or _modules) and its value.  Parameter       *)
(* objects have an identity; their _name and train fields live in the      *)
(* instance's view of the heap (pname, ptrain).                            *)

MaxDeg == 3
MaxPrefix == 2
DefaultDeg == 20

\* Values that can be assigned to an attribute
Par(i)     == [kind |-> "Parameter", id |-> i]
ModList    == [kind |-> "ModuleList", id |-> 0]
NoneVal    == [kind |-> "None", id |-> 0]
TensorVal  == [kind |-> "tensor", id |-> 0]
BoolVal(b) == [kind |-> "bool", id |-> IF b THEN 1 ELSE 0]

\* Parameter objects the caller holds, and the Parameter of the one item of
\* the ModuleList
ParamIds == {1, 2}
ItemParamIds == {3}

AttrNames == {"train", "scale", "output_dims"}
AttrVals == {Par(i) : i \in ParamIds} \cup {ModList, NoneVal, TensorVal}
               \cup {BoolVal(b) : b \in BOOLEAN}

Slot(in, val) == [in |-> in, val |-> val]
Unset == Slot("unset", NoneVal)

\* np.polynomial.hermite.hermgauss(deg), t scaled by sqrt(2) and w by 1/sqrt(pi)
Abscissae(deg) == [k \in 1..deg |-> Term("hermgauss.t*sqrt(2)", "", deg, k, 0)]
Weights(deg)   == [k \in 1..deg |-> Term("hermgauss.w/sqrt(pi)", "", deg, k, 0)]

\* Mutant: one abscissa too many
GaussHermiteQuadrature_init_OffByOne(deg) ==
    IF deg <= 0 THEN Raise("ValueError")
    ELSE [err |-> "none", t |-> Abscissae(deg + 1), w |-> Weights(deg), deg |-> deg]

GaussHermiteQuadrature_init(deg) ==
    IF deg <= 0 THEN Raise("ValueError")       \* hermgauss: deg must be positive
    ELSE [err |-> "none", t |-> Abscissae(deg), w |-> Weights(deg), deg |-> deg]

\* Likelihood.__init__(quadratures) of class cls; engines are numbered as made
Likelihood_init(cls, quadratures, engineId) ==
    LET q == GaussHermiteQuadrature_init(quadratures)
    IN  IF q.err # "none" THEN Raise(q.err)
        ELSE [err |-> "none",
              self |-> [built |-> TRUE, cls |-> cls,
                        attrs |-> [nm \in AttrNames |->
                                      IF nm = "output_dims" THEN Slot("dict", NoneVal)
                                      ELSE IF nm = "train" THEN Slot("class", NoneVal)
                                      ELSE Unset],
                        pname |-> [p \in ParamIds \cup ItemParamIds |->
                                      IF p \in ItemParamIds
                                      THEN [prefixes |-> 0, base |-> <<"GaussianLikelihood", "scale">>]
                                      ELSE [prefixes |-> 0, base |-> <<>>]],
                        ptrain |-> [p \in ParamIds \cup ItemParamIds |-> BoolVal(TRUE)],
                        quadrature |-> [id |-> engineId, t |-> q.t, w |-> q.w, deg |-> q.deg]]]

\* self.parameters(): the instance's Parameters and those of its submodules
Parameters(self) ==
    {self.attrs[nm].val.id : nm \in {m \in AttrNames : self.attrs[m].val.kind = "Parameter"}}
    \cup (IF \E nm \in AttrNames : self.attrs[nm].val.kind = "ModuleList"
          THEN ItemParamIds ELSE {})

HasAttr(self, name) == self.attrs[name].in # "unset"

\* torch.nn.Module.__setattr__(name, val)
Module_setattr(self, name, val) ==
    LET slot == self.attrs[name]
        put(s) == [err |-> "none", self |-> [self EXCEPT !.attrs[name] = s]]
    IN  IF val.kind = "Parameter" THEN put(Slot("params", val))
        ELSE IF slot.in = "params"
        THEN IF val.kind # "None" THEN Raise("TypeError") ELSE put(Slot("params", val))
        ELSE IF val.kind = "ModuleList" THEN put(Slot("modules", val))
        ELSE IF slot.in = "modules"
        THEN IF val.kind # "None" THEN Raise("TypeError") ELSE put(Slot("modules", val))
        ELSE put(Slot("dict", val))

\* Mutant: a bound Parameter can be rebound
Likelihood_setattr_NoGuard(self, name, val) ==
    IF name = "train"
    THEN [err |-> "none",
          self |-> [self EXCEPT !.ptrain = [p \in DOMAIN @ |->
                                   IF p \in Parameters(self) THEN val ELSE @[p]]]]
    ELSE Module_setattr(self, name, val)

\* Likelihood.__setattr__(name, val); a raised error leaves self as it was
Likelihood_setattr(self, name, val) ==
    IF name = "train"
    THEN [err |-> "none",
          self |-> [self EXCEPT !.ptrain = [p \in DOMAIN @ |->
                                   IF p \in Parameters(self) THEN val ELSE @[p]]]]
    ELSE IF HasAttr(self, name) /\ self.attrs[name].val.kind = "Parameter"
    THEN Raise("AttributeError")
    ELSE LET named ==
                IF val.kind = "Parameter" /\ self.pname[val.id].base = <<>>
                THEN [self EXCEPT !.pname[val.id].base = <<self.cls, name>>]
                ELSE IF val.kind = "ModuleList"
                THEN [self EXCEPT !.pname = [p \in DOMAIN @ |->
                            IF p \in ItemParamIds
                            THEN [@[p] EXCEPT !.prefixes = @ + 1]
                            ELSE @[p]]]
                ELSE self
         IN  Module_setattr(named, name, val)

----------------------------------------------------------------------------
(* The callers that assign attributes.                                     *)

\* cls() with the default number of quadrature points
ConstructDefault ==
    /\ Idle
    /\ ~obj.built
    /\ \E cls \in {"GaussianLikelihood", "GammaLikelihood"} :
        obj' = Likelihood_init(cls, DefaultDeg, 1).self
    /\ UNCHANGED <<call, ret, orig, mol, fbuf, lik, ker, ds>>

\* obj.name = val
SetAttr ==
    /\ Idle
    /\ obj.built
    /\ \E name \in AttrNames, val \in AttrVals :
        /\ val.kind = "ModuleList" => \A p \in ItemParamIds : obj.pname[p].prefixes < MaxPrefix
        /\ LET out == Likelihood_setattr(obj, name, val) IN
            /\ call' = [op |-> "setattr", name |-> name, val |-> val, before |-> obj]
            /\ ret' = [err |-> out.err]
            /\ obj' = IF out.err = "none" THEN out.self ELSE obj
    /\ UNCHANGED <<orig, mol, fbuf, lik, ker, ds>>

ReturnAttr ==
    /\ ~Idle
    /\ call' = NoCall
    /\ ret' = NoRet
    /\ UNCHANGED <<orig, mol, fbuf, lik, obj, ker, ds>>

NextAttr == ConstructDefault \/ SetAttr \/ ReturnAttr

SpecAttr == Init /\ [][NextAttr]_vars

----------------------------------------------------------------------------
(* Claims about attribute assignment, checked under SpecAttr.              *)

\* C12: a name bound to a Parameter stays bound to that Parameter object:
\* every later ordinary assignment to the name, whatever the value, raises
\* AttributeError and leaves the instance's attributes unchanged.
C12_ParameterReadOnly ==
    /\ [][\A nm \in AttrNames :
            (obj.built /\ obj.attrs[nm].val.kind = "Parameter")
                => (obj'.built /\ obj'.attrs[nm] = obj.attrs[nm])]_vars
    /\ [](  (call.op = "setattr" /\ call.before.attrs[call.name].val.kind = "Parameter")
            => (ret.err = "AttributeError" /\ obj.attrs = call.before.attrs))

C12_Witness ==
    /\ call.op = "setattr"
    /\ call.name = "scale"
    /\ call.before.attrs["scale"].val = Par(1)
    /\ call.val = Par(2)
    /\ ret.err = "AttributeError"
    /\ obj.attrs["scale"].val = Par(1)

----------------------------------------------------------------------------
(* gpr/likelihood.py : the quadrature engine in use.  Every operation      *)
(* returns its result together with the instance as the call leaves it.    *)

\* GaussHermiteQuadrature.__call__(mu, var, F): per data point the sum over
\* the deg nodes of Fn(mu + sqrt(var)*t[k]) * w[k]
GaussHermiteQuadrature_call(q, mu, var, Fn) ==
    IF Len(q.t) # Len(q.w) THEN Raise("RuntimeError")      \* mm of N x |t| by |w| x 1
    ELSE [err |-> "none",
          val |-> [a \in 1..Len(mu) |->
                     [Fn |-> Fn, mu |-> mu[a], var |-> var[a], t |-> q.t, w |-> q.w]]]

\* Mutant: predict builds itself a new engine
Obj_predict_NewEngine(self, mu, var, ci, n) ==
    [err |-> "none", val |-> <<>>,
     self |-> [self EXCEPT !.quadrature.id = @ + 1]]

\* predict of the instance's class on its own engine
Obj_predict(self, mu, var, ci, n) ==
    IF self.cls = "GaussianLikelihood"
    THEN LET out == GaussianLikelihood_predict(self.cls, mu, var, ci, NoSigma, n)
         IN  IF out.err # "none" THEN Raise(out.err)
             ELSE [err |-> "none", val |-> out, self |-> self]
    ELSE LET m == GaussHermiteQuadrature_call(self.quadrature, mu, var, "mean")
         IN  IF m.err # "none" THEN Raise(m.err)
             ELSE IF ~ci.given THEN [err |-> "none", val |-> m.val, self |-> self]
             ELSE IF QuantileIndex(ci.lo, n) >= n \/ QuantileIndex(ci.hi, n) >= n
             THEN Raise("IndexError")
             ELSE [err |-> "none",
                   val |-> <<m.val, "samples_y[lower]", "samples_y[upper]">>,
                   self |-> self]

\* variational_expectation: GaussianLikelihood has a closed form, the others
\* integrate log_prob on the engine
Obj_variational_expectation(self, y, mu, var) ==
    IF self.cls = "GaussianLikelihood"
    THEN [err |-> "none", val |-> ChildVarExp(self.cls, y, mu, var), self |-> self]
    ELSE LET q == GaussHermiteQuadrature_call(self.quadrature, mu, var, "log_prob")
         IN  IF q.err # "none" THEN Raise(q.err)
             ELSE [err |-> "none", val |-> <<"sum", q.val>>, self |-> self]

QuadOps == {"log_prob", "variational_expectation", "mean", "variance", "sample", "predict"}

\* obj.op(...) on N data points
Obj_call(self, op, N, ci) ==
    IF op = "predict" THEN Obj_predict(self, MuOf(N), VarOf(N), ci, NSamples)
    ELSE IF op = "variational_expectation"
    THEN Obj_variational_expectation(self, YOf(N), MuOf(N), VarOf(N))
    ELSE IF op = "log_prob"
    THEN [err |-> "none", val |-> ChildLogProb(self.cls, YOf(N), FOf(N)), self |-> self]
    ELSE IF op = "mean"
    THEN [err |-> "none", val |-> ChildMean(self.cls, FOf(N)), self |-> self]
    ELSE IF op = "variance"
    THEN [err |-> "none", val |-> ChildVariance(self.cls, FOf(N)), self |-> self]
    ELSE [err |-> "none", val |-> ChildSample(self.cls, FOf(N)), self |-> self]

\* cls(quadratures=deg); GaussianLikelihood passes no degree on
ConstructInst ==
    /\ Idle
    /\ ~obj.built
    /\ \E cls \in {"GaussianLikelihood", "GammaLikelihood", "PoissonLikelihood"},
          quadratures \in 0..MaxDeg :
        LET deg == IF cls = "GaussianLikelihood" THEN DefaultDeg ELSE quadratures
            made == Likelihood_init(cls, deg, 1)
        IN  /\ call' = [op |-> "init", cls |-> cls, deg |-> deg]
            /\ ret' = [err |-> made.err]
            /\ obj' = IF made.err = "none" THEN made.self ELSE obj
    /\ UNCHANGED <<orig, mol, fbuf, lik, ker, ds>>

CallQuadOp ==
    /\ Idle
    /\ obj.built
    /\ \E op \in QuadOps, N \in 0..MaxPts, ci \in CIs :
        /\ op # "predict" => ci = NoCI
        /\ LET out == Obj_call(obj, op, N, ci) IN
            /\ call' = [op |-> op, N |-> N, ci |-> ci]
            /\ ret' = IF out.err = "none" THEN [err |-> "none", val |-> out.val]
                      ELSE [err |-> out.err]
            /\ obj' = IF out.err = "none" THEN out.self ELSE obj
    /\ UNCHANGED <<orig, mol, fbuf, lik, ker, ds>>

ReturnQuad ==
    /\ ~Idle
    /\ call' = NoCall
    /\ ret' = NoRet
    /\ UNCHANGED <<orig, mol, fbuf, lik, obj, ker, ds>>

NextQuad == ConstructInst \/ CallQuadOp \/ ReturnQuad

SpecQuad == Init /\ [][NextQuad]_vars

----------------------------------------------------------------------------
(* Claims about the quadrature engine, checked under SpecQuad.             *)

\* C13: the engine of a Likelihood built with degree deg holds exactly deg
\* abscissae and deg weights, is made once at construction, and no call of
\* log_prob, variational_expectation, mean, variance, sample or predict
\* changes its abscissae, weights or degree or replaces it.
C13_EngineFixed ==
    /\ [](obj.built =>
            /\ Len(obj.quadrature.t) = obj.quadrature.deg
            /\ Len(obj.quadrature.w) = obj.quadrature.deg
            /\ obj.quadrature.deg >= 1)
    /\ []((call.op = "init" /\ ret.err = "none") =>
            (obj.built /\ obj.quadrature.deg = call.deg))
    /\ [][obj.built => (obj'.built /\ obj'.quadrature = obj.quadrature)]_vars

C13_Witness ==
    /\ obj.built
    /\ obj.cls = "GammaLikelihood"
    /\ obj.quadrature.deg = 3
    /\ Len(obj.quadrature.t) = 3
    /\ call.op = "predict"
    /\ call.ci = CI(25, 75)
    /\ ret.err = "none"

----------------------------------------------------------------------------
(* Claims about the shape of predict's result, checked under SpecPredict.  *)

\* C14: predict returns only the point prediction when neither ci nor sigma
\* is given, and a (mean, lower, upper) triple whenever ci or sigma is given.
C14_PredictShape ==
    call.op = "predict" =>
        /\ ret.err = "none"
        /\ Len(ret.mean) = Len(call.mu)
        /\ IF call.ci.given \/ call.sigma.given
           THEN /\ ret.shape = "triple"
                /\ Len(ret.lower) = Len(call.mu)
                /\ Len(ret.upper) = Len(call.mu)
           ELSE ret.shape = "point"


\* The value at 0-based position i of col sorted ascending is v
IsOrderStatistic(col, i, v) ==
    /\ Cardinality({k \in 1..Len(col) : col[k] < v}) <= i
    /\ i < Cardinality({k \in 1..Len(col) : col[k] <= v})

\* i is c percent of n rounded to the nearest integer, halves up
IsRounded(i, c, n) == 2 * c * n - 100 < 200 * i /\ 200 * i <= 2 * c * n + 100

\* C15: in the Monte-Carlo fallback the n samples of every data point are
\* sorted ascending on their own, the returned bounds are the sorted samples
\* at round(ci[0]*n) and round(ci[1]*n) (halves up), and lower <= upper for
\* every data point when ci[0] <= ci[1].
C15_Quantiles ==
    (call.op = "predict" /\ UsesBasePredict(lik) /\ call.ci.given /\ ret.err = "none") =>
        /\ ret.shape = "triple"
        /\ Len(call.samples_y) = call.n
        /\ \E lo, hi \in 0..(call.n - 1) :
              /\ IsRounded(lo, call.ci.lo, call.n)
              /\ IsRounded(hi, call.ci.hi, call.n)
              /\ \A a \in 1..Len(call.mu) :
                    /\ IsOrderStatistic(Column(call.samples_y, a), lo, ret.lower[a])
                    /\ IsOrderStatistic(Column(call.samples_y, a), hi, ret.upper[a])
        /\ call.ci.lo <= call.ci.hi =>
              \A a \in 1..Len(call.mu) : ret.lower[a] <= ret.upper[a]

C15_Witness ==
    /\ call.op = "predict"
    /\ lik.cls = "PoissonLikelihood"
    /\ call.n = 4
    /\ call.ci = CI(25, 75)
    /\ call.samples_y = << <<1, 0>>, <<0, 1>>, <<1, 0>>, <<1, 0>> >>
    /\ ret.lower = <<1, 0>>
    /\ ret.upper = <<1, 1>>

\* The square root of a value
Sqrt(v) == Term("sqrt", "", v, 0, 0)

\* C23: in the Monte-Carlo fallback of Likelihood.predict the latent samples
\* are drawn from the normal distribution whose mean is the mu passed to
\* predict and whose variance is the var passed to predict.
C23_LatentSamples ==
    (call.op = "predict" /\ UsesBasePredict(lik) /\ call.ci.given) =>
        call.samples_f = Normal([a \in 1..Len(call.mu) |-> Same(call.mu[a])],
                                [a \in 1..Len(call.var) |-> Sqrt(call.var[a])])

----------------------------------------------------------------------------
(* gpr/likelihood.py : MultiOutputLikelihood.validate_y                    *)

\* self.likelihoods[i].validate_y(y): the method of the item's class;
\* GaussianLikelihood inherits the one of Likelihood, which does nothing
ChildValidateY(kind, y, g) ==
    IF kind = "PoissonLikelihood" THEN PoissonLikelihood_validate_y(y, g)
    ELSE IF kind = "BernoulliLikelihood" THEN BernoulliLikelihood_validate_y(y)
    ELSE [err |-> "none"]

\* Mutant: every likelihood validates all the rows
MOL_validate_y_AllRows(self, y, X, g) ==
    IF \E i \in 1..self.output_dims : ChildValidateY(self.likelihoods[i], y, g).err # "none"
    THEN Raise("ValueError")
    ELSE [err |-> "none"]

\* With one channel the likelihood sees all of y; otherwise likelihood i sees
\* the rows y[r[i],:], and the first one that raises ends the loop
MOL_validate_y(self, y, X, g) ==
    IF self.output_dims = 1
    THEN ChildValidateY(self.likelihoods[1], y, g)
    ELSE LET r == channel_indices(self, X)
         IN  IF \E i \in 1..self.output_dims :
                    ChildValidateY(self.likelihoods[i], Gather(y, r[i]), g).err # "none"
             THEN Raise("ValueError")
             ELSE [err |-> "none"]

\* Observations: -1.0, 1.0 and 2.0
ObsVals == {F(-2), F(2), F(4)}

\* The channel column of X: the index of a channel of the likelihood
ChannelRows2(self) ==
    UNION {[1..n -> {2 * j : j \in 0..(self.output_dims - 1)}] : n \in 0..MaxN}

CallMOLValidateY ==
    /\ Idle
    /\ mol.built
    /\ \E chan \in ChannelRows2(mol), g \in Garbage :
        \E y \in [1..Len(chan) -> ObsVals] :
            /\ call' = [op |-> "validate_y", y |-> y, X |-> MkX(chan)]
            /\ ret' = MOL_validate_y(mol, y, MkX(chan), g)
    /\ UNCHANGED <<orig, mol, fbuf, lik, obj, ker, ds>>

NextMOLValidate == Construct \/ CallMOLValidateY \/ ReturnMOL

SpecMOLValidate == Init /\ [][NextMOLValidate]_vars

\* The value is outside the support of the likelihood
OutsideSupport(kind, v) ==
    CASE kind = "PoissonLikelihood" -> v.nan \/ v.v < 0 \/ v.v % 2 # 0
      [] kind = "BernoulliLikelihood" -> v \notin {F(0), F(2)}
      [] OTHER -> FALSE

\* C25: MultiOutputLikelihood.validate_y checks each row of y only against
\* the likelihood of that row's channel: it raises iff some row is outside
\* the support of its own channel's likelihood, for any order of the rows and
\* any number of channels, one included.
C25_OwnChannelSupport ==
    (call.op = "validate_y" /\ mol.built) =>
        /\ ret.err \in {"ValueError", "none"}
        /\ ret.err = "ValueError" <=>
              \E p \in 1..Len(call.y) :
                  OutsideSupport(mol.likelihoods[Long(call.X[p][1]) + 1], call.y[p])

\* A Poisson row before a Gaussian row whose negative value would be invalid
\* for Poisson: the call returns
C25_Witness ==
    /\ call.op = "validate_y"
    /\ mol.built
    /\ mol.likelihoods = <<"GaussianLikelihood", "PoissonLikelihood">>
    /\ call.y = <<F(4), F(-2), F(2)>>
    /\ [p \in 1..3 |-> Long(call.X[p][1])] = <<1, 0, 1>>
    /\ ret.err = "none"

----------------------------------------------------------------------------
(* dataset.py : DataSet                                                    *)
(*                                                                         *)
(* A Python value is a record with its type; an array is named by its role *)
(* and number, so that a channel shows which x and which y it was given.   *)

MaxData == 3

PyInt(n)  == [type |-> "int", n |-> n]
PyStr(s)  == [type |-> "str", s |-> s]
NoName    == [type |-> "NoneType", s |-> "None"]
Array(role, i) == [type |-> "ndarray", role |-> role, i |-> i]
PyListOf(items) == [type |-> "list", items |-> items]
PyDict(pairs)   == [type |-> "dict", pairs |-> pairs]

\* Data(x, y, name=name)
Data(x, y, name) == [type |-> "Data", x |-> x, y |-> y, name |-> name]

IsList(v, type) == v.type = "list" /\ \A k \in 1..Len(v.items) : v.items[k].type = type

Min(a, b) == IF a <= b THEN a ELSE b

\* Mutant: a DataSet argument contributes its first channel only
DataSet_append_FirstOnly(self, arg) ==
    CASE arg.type = "Data" ->
            [err |-> "none", self |-> [self EXCEPT !.channels = Append(@, arg)]]
      [] arg.type = "DataSet" ->
            [err |-> "none", self |-> [self EXCEPT !.channels = @ \o SubSeq(arg.channels, 1, 1)]]
      [] IsList(arg, "Data") ->
            [err |-> "none", self |-> [self EXCEPT !.channels = @ \o arg.items]]
      [] arg.type = "dict" /\ \A k \in 1..Len(arg.pairs) : arg.pairs[k][2].type = "Data" ->
            [err |-> "none",
             self |-> [self EXCEPT !.channels =
                          @ \o [k \in 1..Len(arg.pairs) |->
                                   [arg.pairs[k][2] EXCEPT !.name = arg.pairs[k][1]]]]]
      [] OTHER -> [err |-> "Exception", self |-> self]

\* DataSet.append(arg): a dict is the sequence of its (key, value) items
DataSet_append(self, arg) ==
    CASE arg.type = "Data" ->
            [err |-> "none", self |-> [self EXCEPT !.channels = Append(@, arg)]]
      [] arg.type = "DataSet" ->
            [err |-> "none", self |-> [self EXCEPT !.channels = @ \o arg.channels]]
      [] IsList(arg, "Data") ->
            [err |-> "none", self |-> [self EXCEPT !.channels = @ \o arg.items]]
      [] arg.type = "dict" /\ \A k \in 1..Len(arg.pairs) : arg.pairs[k][2].type = "Data" ->
            [err |-> "none",
             self |-> [self EXCEPT !.channels =
                          @ \o [k \in 1..Len(arg.pairs) |->
                                   [arg.pairs[k][2] EXCEPT !.name = arg.pairs[k][1]]]]]
      [] OTHER -> [err |-> "Exception", self |-> self]

\* for arg in args: self.append(arg), an exception ending the loop
RECURSIVE AppendAll(_, _)
AppendAll(self, args) ==
    IF args = <<>> THEN [err |-> "none", self |-> self]
    ELSE LET r == DataSet_append(self, Head(args))
         IN  IF r.err # "none" THEN r ELSE AppendAll(r.self, Tail(args))

\* DataSet(*args, names=names); zip stops at its shortest argument
DataSet_init(args, names) ==
    LET self == [built |-> TRUE, channels |-> <<>>]
    IN  IF Len(args) = 2 /\ (args[2].type = "ndarray" \/ IsList(args[2], "ndarray"))
           /\ (args[1].type = "ndarray"
               \/ (IsList(args[1], "ndarray") /\ args[2].type = "list"
                   /\ Len(args[1].items) = Len(args[2].items)))
        THEN LET nms == IF names.type \in {"NoneType", "str"} THEN <<names>> ELSE names.items
                 n   == Min(Len(nms), Len(args[2].items))
             IN  [err |-> "none",
                  self |-> [self EXCEPT !.channels =
                              [k \in 1..n |->
                                 Data(IF args[1].type = "ndarray" THEN args[1] ELSE args[1].items[k],
                                      args[2].items[k], nms[k])]]]
        ELSE AppendAll(self, args)

\* DataSet.get_output_dims()
DataSet_get_output_dims(self) == [err |-> "none", value |-> PyInt(Len(self.channels))]

\* Mutant: the position of the first channel of that name is returned
DataSet_get_index_Position(self, index) ==
    CASE index.type = "int" /\ index.n < Len(self.channels) ->
            [err |-> "none", value |-> index]
      [] index.type = "int" -> [err |-> "ValueError", value |-> NoName]
      [] index.type = "str" /\ \E k \in 1..Len(self.channels) : self.channels[k].name = index ->
            [err |-> "none",
             value |-> PyInt((CHOOSE k \in 1..Len(self.channels) :
                                 /\ self.channels[k].name = index
                                 /\ \A m \in 1..(k - 1) : self.channels[m].name # index) - 1)]
      [] OTHER -> [err |-> "TypeError", value |-> NoName]

\* DataSet.get_index(index): what is returned is index itself; the message
\* of the ValueError is formatted with '%d', which takes a number only
DataSet_get_index(self, index) ==
    CASE index.type = "int" /\ index.n < Len(self.channels) ->
            [err |-> "none", value |-> index]
      [] index.type = "int" -> [err |-> "ValueError", value |-> NoName]
      [] index.type = "str" /\ \E k \in 1..Len(self.channels) : self.channels[k].name = index ->
            [err |-> "none", value |-> index]
      [] OTHER -> [err |-> "TypeError", value |-> NoName]

Names == {PyStr("A"), PyStr("B")}

\* The arrays x1..xk and y1..yk, and the names of k channels
XList(k) == PyListOf([c \in 1..k |-> Array("x", c)])
YList(k) == PyListOf([c \in 1..k |-> Array("y", c)])
NameList(k) == PyListOf([c \in 1..k |-> IF c % 2 = 1 THEN PyStr("A") ELSE PyStr("B")])

\* Data objects made elsewhere, and the arguments append takes
DataPool == {Data(Array("x", 0), Array("y", 0), nm) : nm \in Names \cup {NoName}}

AppendArgs ==
    DataPool
    \cup {PyListOf(s) : s \in SeqsUpTo(DataPool, 2)}
    \cup {[type |-> "DataSet", channels |-> s] : s \in SeqsUpTo(DataPool, 2)}
    \cup {PyDict(<<<<PyStr("B"), dd>>>>) : dd \in DataPool}
    \cup {Array("x", 0), PyListOf(<<Array("y", 1)>>)}

InitArgs ==
    {<<Array("x", 0), YList(k)>> : k \in 0..MaxData}
    \cup {<<XList(k), YList(k)>> : k \in 0..MaxData}
    \cup {<<XList(1), YList(2)>>}
    \cup SeqsUpTo(DataPool, 1)

ConstructDataSet ==
    /\ Idle
    /\ ~ds.built
    /\ \E args \in InitArgs :
        \E names \in {NoName, PyStr("A")}
                     \cup (IF Len(args) = 2 THEN {NameList(Len(args[2].items))} ELSE {}) :
            LET r == DataSet_init(args, names)
            IN  /\ call' = [op |-> "DataSet", args |-> args, names |-> names]
                /\ ret' = [err |-> r.err]
                /\ ds' = IF r.err = "none" THEN r.self ELSE ds
    /\ UNCHANGED <<orig, mol, fbuf, lik, obj, ker>>

CallAppend ==
    /\ Idle
    /\ ds.built
    /\ Len(ds.channels) < MaxData
    /\ \E arg \in AppendArgs :
        LET r == DataSet_append(ds, arg)
        IN  /\ call' = [op |-> "append", arg |-> arg, before |-> ds.channels]
            /\ ret' = [err |-> r.err]
            /\ ds' = r.self
    /\ UNCHANGED <<orig, mol, fbuf, lik, obj, ker>>

CallGetOutputDims ==
    /\ Idle
    /\ ds.built
    /\ call' = [op |-> "get_output_dims"]
    /\ ret' = DataSet_get_output_dims(ds)
    /\ UNCHANGED <<orig, mol, fbuf, lik, obj, ker, ds>>

CallGetIndex ==
    /\ Idle
    /\ ds.built
    /\ \E index \in {PyInt(n) : n \in (0 - 1)..MaxData} \cup Names \cup {PyStr("C")} :
        /\ call' = [op |-> "get_index", index |-> index]
        /\ ret' = DataSet_get_index(ds, index)
    /\ UNCHANGED <<orig, mol, fbuf, lik, obj, ker, ds>>

ReturnDataSet ==
    /\ call.op \in {"DataSet", "append", "get_output_dims", "get_index"}
    /\ call' = NoCall
    /\ ret' = NoRet
    /\ UNCHANGED <<orig, mol, fbuf, lik, obj, ker, ds>>

NextDataSet ==
    ConstructDataSet \/ CallAppend \/ CallGetOutputDims \/ CallGetIndex \/ ReturnDataSet

SpecDataSet == Init /\ [][NextDataSet]_vars

\* The channels that index identifies: by position or by name
Identified(index) ==
    {k \in 1..Len(ds.channels) :
        IF index.type = "int" THEN index.n = k - 1 ELSE ds.channels[k].name = index}

\* C26: DataSet.get_index(index) returns the numeric position, an integer in
\* [0, number of channels), of the channel that index identifies, given as
\* an integer or as a channel name, and raises ValueError when there is no
\* such channel.
C26_GetIndex ==
    call.op = "get_index" =>
        IF Identified(call.index) = {}
        THEN ret.err = "ValueError"
        ELSE /\ ret.err = "none"
             /\ ret.value.type = "int"
             /\ (ret.value.n + 1) \in Identified(call.index)

----------------------------------------------------------------------------
(* Claims about DataSet, checked under SpecDataSet.                        *)

\* The two array forms of the constructor: a shared x or one x per channel
ArrayForm(args) ==
    /\ Len(args) = 2
    /\ IsList(args[2], "ndarray")
    /\ \/ args[1].type = "ndarray"
       \/ IsList(args[1], "ndarray") /\ Len(args[1].items) = Len(args[2].items)

\* The Data objects an argument of append holds
DataObjects(arg) ==
    CASE arg.type = "Data" -> 1
      [] arg.type = "DataSet" -> Len(arg.channels)
      [] arg.type = "list" -> Len(arg.items)
      [] arg.type = "dict" -> Len(arg.pairs)
      [] OTHER -> 0

\* The constructor's part: k channels in the given order, channel i holding
\* (x_i, y_i) or (x, y_i), names omitted or k names given
ChannelsAsGiven ==
    (/\ call.op = "DataSet"
     /\ ArrayForm(call.args)
     /\ call.names.type \in {"NoneType", "list"}) =>
        /\ ret.err = "none"
        /\ Len(ds.channels) = Len(call.args[2].items)
        /\ \A i \in 1..Len(ds.channels) :
              /\ ds.channels[i].y = call.args[2].items[i]
              /\ ds.channels[i].x = IF call.args[1].type = "ndarray"
                                    THEN call.args[1] ELSE call.args[1].items[i]

\* The part about append: the channels are those before the call followed by
\* the Data objects of the argument, and get_output_dims counts the channels
AppendedInOrder ==
    /\ (call.op = "append" /\ ret.err = "none") =>
          /\ Len(ds.channels) = Len(call.before) + DataObjects(call.arg)
          /\ SubSeq(ds.channels, 1, Len(call.before)) = call.before
    /\ (call.op = "append" /\ ret.err # "none") => ds.channels = call.before
    /\ call.op = "get_output_dims" => ret = [err |-> "none", value |-> PyInt(Len(ds.channels))]

\* C27: DataSet([x1,...,xk], [y1,...,yk]) and DataSet(x, [y1,...,yk]) yield
\* exactly k channels in the given order, channel i holding (x_i, y_i) or
\* (x, y_i), with names omitted or with k names given; and after any appends
\* get_output_dims() is the number of Data objects appended, in append order.
C27_ConstructAndAppend == ChannelsAsGiven /\ AppendedInOrder

----------------------------------------------------------------------------
(* Claims about the callers' arguments of predict and sample.              *)

\* C29: for every ci = [lo, hi] with 0 <= lo <= hi <= 1 and every n >= 1,
\* both quantile indices of the Monte-Carlo fallback of Likelihood.predict
\* lie in [0, n-1]: the lookup into the n sorted samples is never out of range.
C29_QuantileIndices ==
    (/\ call.op = "predict"
     /\ UsesBasePredict(lik)
     /\ call.ci.given
     /\ 0 <= call.ci.lo /\ call.ci.lo <= call.ci.hi /\ call.ci.hi <= 100
     /\ call.n >= 1) =>
        /\ QuantileIndex(call.ci.lo, call.n) \in 0..(call.n - 1)
        /\ QuantileIndex(call.ci.hi, call.n) \in 0..(call.n - 1)
        /\ ret.err # "IndexError"

\* C30: MultiOutputLikelihood.sample(f, X) leaves its argument f unchanged:
\* the caller's tensor holds after the call what it held before, and the
\* samples are delivered through the returned value only.  An entry is a
\* number before the call and a sample term once overwritten: the two are
\* told apart by how they print.
C30_ArgumentUnchanged ==
    (call.op = "sample" /\ mol.built) => ToString(fbuf) = ToString(call.f)

----------------------------------------------------------------------------
(* gpr/multioutput.py : exact values.                                      *)
(*                                                                         *)
(* Parameters and inputs are rationals.  A covariance value is a sum of    *)
(* terms  c * sqrt(root) * (2 pi)^twopi * exp(E - pi^2 * pi2) * cos(.) * k *)
(* kept as the set of its terms by shape, so that two values are equal as  *)
(* real numbers whenever they are equal here.                              *)

RECURSIVE GCD(_, _)
GCD(a, b) == IF b = 0 THEN a ELSE GCD(b, a % b)

Abs(n) == IF n < 0 THEN -n ELSE n

\* The fraction n/d in lowest terms with a positive denominator
QN(n, d) ==
    LET g == GCD(Abs(n), Abs(d))
        s == IF d < 0 THEN -1 ELSE 1
    IN  [n |-> (s * n) \div g, d |-> Abs(d) \div g]

QInt(k) == [n |-> k, d |-> 1]
QZero == QInt(0)
QOne == QInt(1)
QHalf == QN(1, 2)
QAdd(a, b) == QN(a.n * b.d + b.n * a.d, a.d * b.d)
QNeg(a) == [n |-> -a.n, d |-> a.d]
QSub(a, b) == QAdd(a, QNeg(b))
QMul(a, b) == QN(a.n * b.n, a.d * b.d)
QInv(a) == QN(a.d, a.n)
QDiv(a, b) == QMul(a, QInv(b))
QLess(a, b) == a.n * b.d < b.n * a.d

RECURSIVE QPow(_, _)
QPow(a, k) == IF k = 0 THEN QOne ELSE QMul(a, QPow(a, k - 1))

\* Elementwise operations on tensors of one dimension
VAdd(a, b) == [d \in 1..Len(a) |-> QAdd(a[d], b[d])]
VSub(a, b) == [d \in 1..Len(a) |-> QSub(a[d], b[d])]
VMul(a, b) == [d \in 1..Len(a) |-> QMul(a[d], b[d])]
VScale(c, a) == [d \in 1..Len(a) |-> QMul(c, a[d])]
VInv(a) == [d \in 1..Len(a) |-> QInv(a[d])]
VSquare(a) == VMul(a, a)

RECURSIVE VSum(_)
VSum(a) == IF a = <<>> THEN QZero ELSE QAdd(Head(a), VSum(Tail(a)))

RECURSIVE VProd(_)
VProd(a) == IF a = <<>> THEN QOne ELSE QMul(Head(a), VProd(Tail(a)))

\* torch.tensordot(a, b, dims=1) and a.dot(b) for two vectors
VDot(a, b) == VSum(VMul(a, b))

\* The largest k whose square divides the positive integer n
SquarePart(n) ==
    LET S == {k \in 1..n : k * k <= n /\ n % (k * k) = 0}
    IN  CHOOSE k \in S : \A j \in S : j <= k

\* cos(2 pi t + ph): t is taken modulo 1 and, cos being even, up to the sign
\* of the whole argument
Frac(t) == QN(t.n % t.d, t.d)

Cos(t, ph) ==
    IF ph.n = 0
    THEN LET f == Frac(t)
         IN  [t |-> IF QLess(QHalf, f) THEN QSub(QOne, f) ELSE f, ph |-> QZero]
    ELSE IF ph.n > 0 THEN [t |-> Frac(t), ph |-> ph]
    ELSE [t |-> Frac(QNeg(t)), ph |-> QNeg(ph)]

\* cos(0) = 1
CosOne == Cos(QZero, QZero)

\* No sub-kernel factor
NoSub == [q |-> 0, pts |-> {}]

\* The values of cos(2 pi t) that are rational
CosRational(cos) ==
    IF cos.ph.n # 0 THEN QZero
    ELSE IF cos.t = QZero THEN QOne
    ELSE IF cos.t = QN(1, 6) THEN QHalf
    ELSE IF cos.t = QN(1, 3) THEN QNeg(QHalf)
    ELSE IF cos.t = QHalf THEN QInt(-1)
    ELSE QZero

IsCosRational(cos) == cos.ph.n = 0 /\ cos.t \in {QZero, QN(1, 6), QN(1, 4), QN(1, 3), QHalf}

\* The term coef * sqrt(root) * (2 pi)^twopi * exp(E - pi^2*pi2) * cos * sub
\* for a positive rational root: the squares in its numerator and in its
\* denominator go into the coefficient, and so does a rational cosine
Term1(coef, root, twopi, pi2, E, cos, sub) ==
    LET kn == SquarePart(root.n)
        kd == SquarePart(root.d)
        c1 == QMul(coef, QN(kn, kd))
        c  == IF IsCosRational(cos) THEN QMul(c1, CosRational(cos)) ELSE c1
    IN  [c |-> c, k |-> [root |-> QN(root.n \div (kn * kn), root.d \div (kd * kd)),
                         twopi |-> twopi, pi2 |-> pi2, E |-> E,
                         cos |-> IF IsCosRational(cos) THEN CosOne ELSE cos, sub |-> sub]]

RECURSIVE CoefSum(_, _)
CoefSum(terms, k) ==
    IF terms = <<>> THEN QZero
    ELSE QAdd(IF Head(terms).k = k THEN Head(terms).c ELSE QZero, CoefSum(Tail(terms), k))

\* The sum of a sequence of terms: like terms are added, zero terms dropped
Sum(terms) ==
    {t \in {[c |-> CoefSum(terms, terms[a].k), k |-> terms[a].k] : a \in 1..Len(terms)} :
        t.c.n # 0}

\* torch.zeros: the sum of no terms
ZeroVal == {}

\* An N x M matrix of one value
Full(N, M, v) == [n \in 1..N |-> [m \in 1..M |-> v]]

\* K.T for a matrix of N rows and M columns
Transpose(K, N, M) == [m \in 1..M |-> [n \in 1..N |-> K[n][m]]]

\* The diagonal of a square matrix
Diag(K) == [n \in 1..Len(K) |-> K[n][n]]

----------------------------------------------------------------------------
(* The kernel base class (gpr/kernel.py), as the specification gives it.   *)

\* An optional argument: X2 is a matrix or is left out
Given(X) == [given |-> TRUE, X |-> X]
Omitted == [given |-> FALSE, X |-> <<>>]

\* Active dimensions: None, or the columns the kernel reads
NoActive == [given |-> FALSE, dims |-> <<>>]
Active(dims) == [given |-> TRUE, dims |-> dims]

\* self._active_input(X1, X2): both restricted to the active columns
ActiveRows(self, X) ==
    IF self.active_dims.given
    THEN [n \in 1..Len(X) |-> [d \in 1..Len(self.active_dims.dims) |->
                                  X[n][self.active_dims.dims[d]]]]
    ELSE X

active_input(self, X1, X2) ==
    [X1 |-> ActiveRows(self, X1),
     X2 |-> IF X2.given THEN Given(ActiveRows(self, X2.X)) ELSE Omitted]

\* X2 if given, else X1
Other(X1, X2) == IF X2.given THEN X2.X ELSE X1

\* self.distance(X1, X2)[n][m] = X1[n] - X2[m], a vector over the dimensions
distance(X1, X2) ==
    [n \in 1..Len(X1) |-> [m \in 1..Len(Other(X1, X2)) |-> VSub(X1[n], Other(X1, X2)[m])]]

\* self.squared_distance(X1, X2)[n][m] = (X1[n] - X2[m])^2
squared_distance(X1, X2) ==
    [n \in 1..Len(X1) |-> [m \in 1..Len(Other(X1, X2)) |->
        VSquare(VSub(X1[n], Other(X1, X2)[m]))]]

\* self.average(X1, X2)[n][m] = (X1[n] + X2[m]) / 2
average(X1, X2) ==
    [n \in 1..Len(X1) |-> [m \in 1..Len(Other(X1, X2)) |->
        VScale(QHalf, VAdd(X1[n], Other(X1, X2)[m]))]]

\* Parameter(value, lower=..., upper=...): the bounds are names of constants
Parameter(val, lower) == [val |-> val, lower |-> lower, upper |-> "None"]

\* The value of a Parameter of a kernel
P(self, name) == self.params[name].val

\* The sub-kernel q's K(X1, X2) and K_diag(X1): a symmetric function of the
\* two points, and its value at a point with itself
SubK(q, X1, X2) ==
    [n \in 1..Len(X1) |-> [m \in 1..Len(Other(X1, X2)) |->
        Sum(<<Term1(QOne, QOne, QZero, QZero, QZero, CosOne,
                    [q |-> q, pts |-> {X1[n], Other(X1, X2)[m]}])>>)]]

SubK_diag(q, X1) ==
    [n \in 1..Len(X1) |->
        Sum(<<Term1(QOne, QOne, QZero, QZero, QZero, CosOne, [q |-> q, pts |-> {X1[n]}])>>)]

\* c * v for a rational c and a value v
Scale(c, v) == {t \in {[c |-> QMul(c, u.c), k |-> u.k] : u \in v} : t.c.n # 0}

----------------------------------------------------------------------------
(* gpr/multioutput.py : the seven multi-output kernels, construction.      *)

\* The largest number of points in the arguments of one kernel call
MaxKPts == 2

KernelKinds == {"Independent", "MOSM", "uMOSM", "CSM", "LMC", "CONV", "MOHSM"}

\* The kernels that hold a list of sub-kernels
HasSubKernels(cls) == cls \in {"Independent", "LMC"}

\* The kernels that take active_dims
TakesActiveDims(cls) == cls \in {"MOSM", "uMOSM", "CSM", "CONV", "MOHSM"}

\* The lower bounds a Parameter is created with
PositiveMinimum == "positive_minimum"
LowerZero == "0.0"
Unbounded == "None"

\* value[i] for the channel i, counted from 0 as in the code
Ch(v, i) == v[i + 1]

\* A tensor of the given shape filled with one value
Vec(n, v) == [a \in 1..n |-> v]
Mat(n, m, v) == [a \in 1..n |-> [b \in 1..m |-> v]]
Cube(n, m, r, v) == [a \in 1..n |-> [b \in 1..m |-> [c \in 1..r |-> v]]]

\* M.tril(): the entries above the diagonal become zero
tril(M) == [a \in 1..Len(M) |-> [b \in 1..Len(M[a]) |-> IF b > a THEN QZero ELSE M[a][b]]]

\* A.mm(A.T) for a square matrix A
MMT(A) == [a \in 1..Len(A) |-> [b \in 1..Len(A) |-> VDot(A[a], A[b])]]

\* MultiOutputKernel.__init__ and the fields the subclasses add
KernelBase(cls, output_dims, input_dims, active_dims, Rq, Q, params) ==
    [built |-> TRUE, cls |-> cls, output_dims |-> output_dims, input_dims |-> input_dims,
     active_dims |-> active_dims, Rq |-> Rq, Q |-> Q, params |-> params]

\* IndependentMultiOutputKernel(*kernels): one sub-kernel for each channel
IndependentMultiOutputKernel_init(output_dims, input_dims) ==
    KernelBase("Independent", output_dims, input_dims, NoActive, 0, output_dims, <<>>)

\* delay and phase exist only if there is more than one channel
DelayPhase(output_dims, input_dims) ==
    IF 1 < output_dims
    THEN ("delay" :> Parameter(Mat(output_dims, input_dims, QZero), Unbounded)) @@
         ("phase" :> Parameter(Vec(output_dims, QZero), Unbounded))
    ELSE <<>>

MultiOutputSpectralKernel_init(output_dims, input_dims, active_dims, rand) ==
    KernelBase("MOSM", output_dims, input_dims, active_dims, 0, 0,
        ("magnitude" :> Parameter(Vec(output_dims, rand), PositiveMinimum)) @@
        ("mean" :> Parameter(Mat(output_dims, input_dims, rand), PositiveMinimum)) @@
        ("variance" :> Parameter(Mat(output_dims, input_dims, rand), PositiveMinimum)) @@
        DelayPhase(output_dims, input_dims))

UncoupledMultiOutputSpectralKernel_init(output_dims, input_dims, active_dims, rand) ==
    KernelBase("uMOSM", output_dims, input_dims, active_dims, 0, 0,
        ("magnitude" :> Parameter(tril(Mat(output_dims, output_dims, rand)), Unbounded)) @@
        ("mean" :> Parameter(Mat(output_dims, input_dims, rand), PositiveMinimum)) @@
        ("variance" :> Parameter(Mat(output_dims, input_dims, rand), PositiveMinimum)) @@
        DelayPhase(output_dims, input_dims))

CrossSpectralKernel_init(output_dims, input_dims, Rq, active_dims, rand) ==
    KernelBase("CSM", output_dims, input_dims, active_dims, Rq, 0,
        ("amplitude" :> Parameter(Mat(output_dims, Rq, rand), PositiveMinimum)) @@
        ("mean" :> Parameter(Vec(input_dims, rand), PositiveMinimum)) @@
        ("variance" :> Parameter(Vec(input_dims, rand), PositiveMinimum)) @@
        ("shift" :> Parameter(Mat(output_dims, Rq, QZero), Unbounded)))

\* LinearModelOfCoregionalizationKernel(*kernels): Q = len(kernels); the base
\* class is given no active_dims
LinearModelOfCoregionalizationKernel_init(output_dims, input_dims, Q, Rq, rand) ==
    KernelBase("LMC", output_dims, input_dims, NoActive, Rq, Q,
        "weight" :> Parameter(Cube(output_dims, Q, Rq, rand), PositiveMinimum))

GaussianConvolutionProcessKernel_init_AllPositive(output_dims, input_dims, active_dims, rand) ==
    KernelBase("CONV", output_dims, input_dims, active_dims, 0, 0,
        ("weight" :> Parameter(Vec(output_dims, rand), PositiveMinimum)) @@
        ("variance" :> Parameter(Mat(output_dims, input_dims, rand), PositiveMinimum)) @@
        ("base_variance" :> Parameter(Vec(input_dims, rand), PositiveMinimum)))

GaussianConvolutionProcessKernel_init(output_dims, input_dims, active_dims, rand) ==
    KernelBase("CONV", output_dims, input_dims, active_dims, 0, 0,
        ("weight" :> Parameter(Vec(output_dims, rand), PositiveMinimum)) @@
        ("variance" :> Parameter(Mat(output_dims, input_dims, rand), LowerZero)) @@
        ("base_variance" :> Parameter(Vec(input_dims, rand), PositiveMinimum)))

MultiOutputHarmonizableSpectralKernel_init(output_dims, input_dims, active_dims, rand) ==
    KernelBase("MOHSM", output_dims, input_dims, active_dims, 0, 0,
        ("magnitude" :> Parameter(Vec(output_dims, rand), PositiveMinimum)) @@
        ("mean" :> Parameter(Mat(output_dims, input_dims, rand), PositiveMinimum)) @@
        ("variance" :> Parameter(Mat(output_dims, input_dims, rand), PositiveMinimum)) @@
        ("lengthscale" :> Parameter(Vec(output_dims, rand), PositiveMinimum)) @@
        DelayPhase(output_dims, input_dims) @@
        ("center" :> Parameter(Vec(input_dims, QZero), Unbounded)))

\* The constructor of each class
Kernel_init(cls, output_dims, input_dims, active_dims, Rq, Q, rand) ==
    CASE cls = "Independent" -> IndependentMultiOutputKernel_init(output_dims, input_dims)
      [] cls = "MOSM" -> MultiOutputSpectralKernel_init(output_dims, input_dims, active_dims, rand)
      [] cls = "uMOSM" ->
            UncoupledMultiOutputSpectralKernel_init(output_dims, input_dims, active_dims, rand)
      [] cls = "CSM" -> CrossSpectralKernel_init(output_dims, input_dims, Rq, active_dims, rand)
      [] cls = "LMC" ->
            LinearModelOfCoregionalizationKernel_init(output_dims, input_dims, Q, Rq, rand)
      [] cls = "CONV" ->
            GaussianConvolutionProcessKernel_init(output_dims, input_dims, active_dims, rand)
      [] cls = "MOHSM" ->
            MultiOutputHarmonizableSpectralKernel_init(output_dims, input_dims, active_dims, rand)

\* The names of the Parameters of a kernel
ParamNames(self) == DOMAIN self.params

----------------------------------------------------------------------------
(* gpr/multioutput.py : Ksub and Ksub_diag.                                *)
(* Channels i, j count from 0; X1 is a list of points, X2 a list of points *)
(* or left out.  A block is a matrix of values; the kernels with           *)
(* sub-kernels also say which sub-kernels they evaluated.                  *)

\* The sum of two values and of a sequence of values
CoefOf(v, k) == IF \E t \in v : t.k = k THEN (CHOOSE t \in v : t.k = k).c ELSE QZero

Add(v, w) ==
    {t \in {[c |-> QAdd(CoefOf(v, k), CoefOf(w, k)), k |-> k] :
                k \in {u.k : u \in v \cup w}} : t.c.n # 0}

RECURSIVE AddAll(_)
AddAll(vs) == IF vs = <<>> THEN ZeroVal ELSE Add(Head(vs), AddAll(Tail(vs)))

\* A value of one term
Val(coef, root, twopi, pi2, E, cos) == Sum(<<Term1(coef, root, twopi, pi2, E, cos, NoSub)>>)

\* -0.5 * tensordot(a, b, dims=1) at one pair of points
MinusHalfDot(a, b) == QMul(QN(-1, 2), VDot(a, b))

\* A block and the sub-kernels evaluated for it
Block(K, evaluated) == [K |-> K, evaluated |-> evaluated]

IndependentMultiOutputKernel_Ksub_CrossTalk(self, i, j, X1r, X2r) ==
    LET in == active_input(self, X1r, X2r)
    IN  Block(SubK(i, in.X1, in.X2), {i})

IndependentMultiOutputKernel_Ksub(self, i, j, X1r, X2r) ==
    LET in == active_input(self, X1r, X2r)
    IN  IF i = j
        THEN Block(SubK(i, in.X1, in.X2), {i})
        ELSE Block(Full(Len(in.X1), Len(Other(in.X1, in.X2)), ZeroVal), {})

IndependentMultiOutputKernel_Ksub_diag(self, i, X1r) ==
    LET in == active_input(self, X1r, Omitted)
    IN  Block(SubK_diag(i, in.X1), {i})

MultiOutputSpectralKernel_Ksub_SumDelay(self, i, j, X1r, X2r) ==
    LET in  == active_input(self, X1r, X2r)
        tau == distance(in.X1, in.X2)
        D   == self.input_dims
        vi  == Ch(P(self, "variance"), i)
        vj  == Ch(P(self, "variance"), j)
        mi  == Ch(P(self, "mean"), i)
        mj  == Ch(P(self, "mean"), j)
    IN  IF i = j
        THEN [n \in 1..Len(tau) |-> [m \in 1..Len(tau[n]) |->
                Val(QPow(Ch(P(self, "magnitude"), i), 2), VProd(vi), QN(D, 2), QZero,
                    MinusHalfDot(VSquare(tau[n][m]), vi),
                    Cos(VDot(tau[n][m], mi), QZero))]]
        ELSE LET inv_variances == VInv(VAdd(vi, vj))
                 diff_mean == VSub(mi, mj)
                 magnitude == QMul(Ch(P(self, "magnitude"), i), Ch(P(self, "magnitude"), j))
                 pi2 == VDot(diff_mean, VMul(inv_variances, diff_mean))
                 mean == VMul(inv_variances, VAdd(VMul(vi, mj), VMul(vj, mi)))
                 variance == VScale(QInt(2), VMul(VMul(vi, inv_variances), vj))
                 delay == VAdd(Ch(P(self, "delay"), i), Ch(P(self, "delay"), j))
                 phase == QSub(Ch(P(self, "phase"), i), Ch(P(self, "phase"), j))
             IN  [n \in 1..Len(tau) |-> [m \in 1..Len(tau[n]) |->
                    Val(magnitude, VProd(variance), QN(D, 2), pi2,
                        MinusHalfDot(VSquare(VAdd(tau[n][m], delay)), variance),
                        Cos(QAdd(VDot(VAdd(tau[n][m], delay), mean), phase), QZero))]]

MultiOutputSpectralKernel_Ksub(self, i, j, X1r, X2r) ==
    LET in  == active_input(self, X1r, X2r)
        tau == distance(in.X1, in.X2)
        D   == self.input_dims
        vi  == Ch(P(self, "variance"), i)
        vj  == Ch(P(self, "variance"), j)
        mi  == Ch(P(self, "mean"), i)
        mj  == Ch(P(self, "mean"), j)
    IN  IF i = j
        THEN [n \in 1..Len(tau) |-> [m \in 1..Len(tau[n]) |->
                Val(QPow(Ch(P(self, "magnitude"), i), 2), VProd(vi), QN(D, 2), QZero,
                    MinusHalfDot(VSquare(tau[n][m]), vi),
                    Cos(VDot(tau[n][m], mi), QZero))]]
        ELSE LET inv_variances == VInv(VAdd(vi, vj))
                 diff_mean == VSub(mi, mj)
                 magnitude == QMul(Ch(P(self, "magnitude"), i), Ch(P(self, "magnitude"), j))
                 pi2 == VDot(diff_mean, VMul(inv_variances, diff_mean))
                 mean == VMul(inv_variances, VAdd(VMul(vi, mj), VMul(vj, mi)))
                 variance == VScale(QInt(2), VMul(VMul(vi, inv_variances), vj))
                 delay == VSub(Ch(P(self, "delay"), i), Ch(P(self, "delay"), j))
                 phase == QSub(Ch(P(self, "phase"), i), Ch(P(self, "phase"), j))
             IN  [n \in 1..Len(tau) |-> [m \in 1..Len(tau[n]) |->
                    Val(magnitude, VProd(variance), QN(D, 2), pi2,
                        MinusHalfDot(VSquare(VAdd(tau[n][m], delay)), variance),
                        Cos(QAdd(VDot(VAdd(tau[n][m], delay), mean), phase), QZero))]]

\* alpha.repeat(X1.shape[0])
MultiOutputSpectralKernel_Ksub_diag(self, i, X1r) ==
    LET variance == Ch(P(self, "variance"), i)
    IN  [n \in 1..Len(X1r) |->
            Val(QPow(Ch(P(self, "magnitude"), i), 2), VProd(variance),
                QN(self.input_dims, 2), QZero, QZero, CosOne)]

\* self.magnitude().tril().mm(self.magnitude().tril().T)
UncoupledMagnitude(self) == MMT(tril(P(self, "magnitude")))

UncoupledMultiOutputSpectralKernel_Ksub(self, i, j, X1r, X2r) ==
    LET in  == active_input(self, X1r, X2r)
        tau == distance(in.X1, in.X2)
        D   == self.input_dims
        mag == UncoupledMagnitude(self)
        vi  == Ch(P(self, "variance"), i)
        vj  == Ch(P(self, "variance"), j)
        mi  == Ch(P(self, "mean"), i)
        mj  == Ch(P(self, "mean"), j)
    IN  IF i = j
        THEN [n \in 1..Len(tau) |-> [m \in 1..Len(tau[n]) |->
                Val(Ch(Ch(mag, i), i), VProd(vi), QN(D, 2), QZero,
                    MinusHalfDot(VSquare(tau[n][m]), vi),
                    Cos(VDot(tau[n][m], mi), QZero))]]
        ELSE LET inv_variances == VInv(VAdd(vi, vj))
                 diff_mean == VSub(mi, mj)
                 pi2 == VDot(diff_mean, VMul(inv_variances, diff_mean))
                 mean == VMul(inv_variances, VAdd(VMul(vi, mj), VMul(vj, mi)))
                 variance == VScale(QInt(2), VMul(VMul(vi, inv_variances), vj))
                 delay == VSub(Ch(P(self, "delay"), i), Ch(P(self, "delay"), j))
                 phase == QSub(Ch(P(self, "phase"), i), Ch(P(self, "phase"), j))
             IN  [n \in 1..Len(tau) |-> [m \in 1..Len(tau[n]) |->
                    Val(Ch(Ch(mag, i), j), VProd(variance), QN(D, 2), pi2,
                        MinusHalfDot(VSquare(VAdd(tau[n][m], delay)), variance),
                        Cos(VDot(VAdd(tau[n][m], delay), mean), phase))]]

UncoupledMultiOutputSpectralKernel_Ksub_diag(self, i, X1r) ==
    LET mag == UncoupledMagnitude(self)
        variance == Ch(P(self, "variance"), i)
    IN  [n \in 1..Len(X1r) |->
            Val(Ch(Ch(mag, i), i), VProd(variance), QN(self.input_dims, 2), QZero, QZero,
                CosOne)]

\* The sum over the Rq subcomponents
CrossSpectralKernel_Ksub(self, i, j, X1r, X2r) ==
    LET in  == active_input(self, X1r, X2r)
        tau == distance(in.X1, in.X2)
        ai  == Ch(P(self, "amplitude"), i)
        aj  == Ch(P(self, "amplitude"), j)
    IN  IF i = j
        THEN [n \in 1..Len(tau) |-> [m \in 1..Len(tau[n]) |->
                AddAll([r \in 1..self.Rq |->
                    Val(ai[r], QOne, QZero, QZero,
                        MinusHalfDot(VSquare(tau[n][m]), P(self, "variance")),
                        Cos(VDot(tau[n][m], P(self, "mean")), QZero))])]]
        ELSE LET shift == VSub(Ch(P(self, "shift"), i), Ch(P(self, "shift"), j))
             IN  [n \in 1..Len(tau) |-> [m \in 1..Len(tau[n]) |->
                    AddAll([r \in 1..self.Rq |->
                        Val(QOne, QMul(ai[r], aj[r]), QZero, QZero,
                            MinusHalfDot(VSquare(tau[n][m]), P(self, "variance")),
                            Cos(QAdd(VDot(tau[n][m], P(self, "mean")), shift[r]), QZero))])]]

\* amplitude[i].sum().repeat(X1.shape[0])
CrossSpectralKernel_Ksub_diag(self, i, X1r) ==
    [n \in 1..Len(X1r) |->
        Val(VSum(Ch(P(self, "amplitude"), i)), QOne, QZero, QZero, QZero, CosOne)]

\* torch.sum(weight[i] * weight[j], dim=1): one weight for each sub-kernel
LMCWeight(self, i, j) ==
    [q \in 1..self.Q |-> VDot(Ch(P(self, "weight"), i)[q], Ch(P(self, "weight"), j)[q])]

LinearModelOfCoregionalizationKernel_Ksub(self, i, j, X1r, X2r) ==
    LET in == active_input(self, X1r, X2r)
        weight == LMCWeight(self, i, j)
        kernels == [q \in 1..self.Q |-> SubK(q - 1, in.X1, in.X2)]
    IN  Block([n \in 1..Len(in.X1) |-> [m \in 1..Len(Other(in.X1, in.X2)) |->
                  AddAll([q \in 1..self.Q |-> Scale(weight[q], kernels[q][n][m])])]],
              {q - 1 : q \in 1..self.Q})

LinearModelOfCoregionalizationKernel_Ksub_diag(self, i, X1r) ==
    LET in == active_input(self, X1r, Omitted)
        weight == LMCWeight(self, i, i)
        kernels == [q \in 1..self.Q |-> SubK_diag(q - 1, in.X1)]
    IN  Block([n \in 1..Len(in.X1) |->
                  AddAll([q \in 1..self.Q |-> Scale(weight[q], kernels[q][n])])],
              {q - 1 : q \in 1..self.Q})

\* The branch is taken on X2 being left out, not on i = j
GaussianConvolutionProcessKernel_Ksub(self, i, j, X1r, X2r) ==
    LET in  == active_input(self, X1r, X2r)
        tau == squared_distance(in.X1, in.X2)
        base == P(self, "base_variance")
    IN  IF ~in.X2.given
        THEN LET variances == VAdd(VScale(QInt(2), Ch(P(self, "variance"), i)), base)
             IN  [n \in 1..Len(tau) |-> [m \in 1..Len(tau[n]) |->
                    Val(QPow(Ch(P(self, "weight"), i), 2),
                        QDiv(VProd(base), VProd(variances)), QZero, QZero,
                        MinusHalfDot(tau[n][m], VInv(variances)), CosOne)]]
        ELSE LET variances == VAdd(VAdd(Ch(P(self, "variance"), i),
                                        Ch(P(self, "variance"), j)), base)
             IN  [n \in 1..Len(tau) |-> [m \in 1..Len(tau[n]) |->
                    Val(QMul(Ch(P(self, "weight"), i), Ch(P(self, "weight"), j)),
                        QDiv(VProd(base), VProd(variances)), QZero, QZero,
                        MinusHalfDot(tau[n][m], VInv(variances)), CosOne)]]

GaussianConvolutionProcessKernel_Ksub_diag(self, i, X1r) ==
    LET base == P(self, "base_variance")
        variances == VAdd(VScale(QInt(2), Ch(P(self, "variance"), i)), base)
    IN  [n \in 1..Len(X1r) |->
            Val(QPow(Ch(P(self, "weight"), i), 2), QDiv(VProd(base), VProd(variances)),
                QZero, QZero, QZero, CosOne)]

\* sqrt(prod(variance)) * pow(sqrt(lengthscale), D) = sqrt(prod(variance) * lengthscale^D)
MultiOutputHarmonizableSpectralKernel_Ksub(self, i, j, X1r, X2r) ==
    LET in  == active_input(self, X1r, X2r)
        tau == distance(in.X1, in.X2)
        avg == average(in.X1, in.X2)
        D   == self.input_dims
        center == P(self, "center")
        vi  == Ch(P(self, "variance"), i)
        vj  == Ch(P(self, "variance"), j)
        mi  == Ch(P(self, "mean"), i)
        mj  == Ch(P(self, "mean"), j)
    IN  IF i = j
        THEN LET lengthscale == QPow(Ch(P(self, "lengthscale"), i), 2)
             IN  [n \in 1..Len(tau) |-> [m \in 1..Len(tau[n]) |->
                    Val(QPow(Ch(P(self, "magnitude"), i), 2),
                        QMul(VProd(vi), QPow(lengthscale, D)), QInt(D), QZero,
                        QAdd(MinusHalfDot(VSquare(tau[n][m]), vi),
                             MinusHalfDot(VSquare(VSub(avg[n][m], center)),
                                          Vec(D, lengthscale))),
                        Cos(VDot(tau[n][m], mi), QZero))]]
        ELSE LET lengthscale_i == QPow(Ch(P(self, "lengthscale"), i), 2)
                 lengthscale_j == QPow(Ch(P(self, "lengthscale"), j), 2)
                 inv_variances == VInv(VAdd(vi, vj))
                 inv_lengthscale == QInv(QAdd(lengthscale_i, lengthscale_j))
                 diff_mean == VSub(mi, mj)
                 magnitude == QMul(Ch(P(self, "magnitude"), i), Ch(P(self, "magnitude"), j))
                 pi2 == VDot(diff_mean, VMul(inv_variances, diff_mean))
                 mean == VMul(inv_variances, VAdd(VMul(vi, mj), VMul(vj, mi)))
                 variance == VScale(QInt(2), VMul(VMul(vi, inv_variances), vj))
                 lengthscale == QMul(QInt(2), QMul(QMul(lengthscale_i, inv_lengthscale),
                                                   lengthscale_j))
                 delay == VSub(Ch(P(self, "delay"), i), Ch(P(self, "delay"), j))
                 phase == QSub(Ch(P(self, "phase"), i), Ch(P(self, "phase"), j))
             IN  [n \in 1..Len(tau) |-> [m \in 1..Len(tau[n]) |->
                    Val(magnitude, QMul(VProd(variance), QPow(lengthscale, D)), QInt(D), pi2,
                        QAdd(MinusHalfDot(VSquare(VAdd(tau[n][m], delay)), variance),
                             MinusHalfDot(VSquare(VSub(avg[n][m], center)),
                                          Vec(D, lengthscale))),
                        Cos(VDot(VAdd(tau[n][m], delay), mean), phase))]]

MultiOutputHarmonizableSpectralKernel_Ksub_diag_NoEnvelope(self, i, X1r) ==
    LET in == active_input(self, X1r, Omitted)
        D  == self.input_dims
        variance == Ch(P(self, "variance"), i)
        lengthscale == QPow(Ch(P(self, "lengthscale"), i), 2)
    IN  [n \in 1..Len(in.X1) |->
            Val(QPow(Ch(P(self, "magnitude"), i), 2),
                QMul(VProd(variance), QPow(lengthscale, D)), QInt(D), QZero, QZero, CosOne)]

MultiOutputHarmonizableSpectralKernel_Ksub_diag(self, i, X1r) ==
    LET in == active_input(self, X1r, Omitted)
        D  == self.input_dims
        variance == Ch(P(self, "variance"), i)
        lengthscale == QPow(Ch(P(self, "lengthscale"), i), 2)
    IN  [n \in 1..Len(in.X1) |->
            Val(QPow(Ch(P(self, "magnitude"), i), 2),
                QMul(VProd(variance), QPow(lengthscale, D)), QInt(D), QZero,
                MinusHalfDot(VSquare(VSub(in.X1[n], P(self, "center"))), Vec(D, lengthscale)),
                CosOne)]

\* kernel.Ksub(i, j, X1, X2) for a kernel of any class
Ksub(self, i, j, X1, X2) ==
    CASE self.cls = "Independent" -> IndependentMultiOutputKernel_Ksub(self, i, j, X1, X2)
      [] self.cls = "MOSM" -> Block(MultiOutputSpectralKernel_Ksub(self, i, j, X1, X2), {})
      [] self.cls = "uMOSM" ->
            Block(UncoupledMultiOutputSpectralKernel_Ksub(self, i, j, X1, X2), {})
      [] self.cls = "CSM" -> Block(CrossSpectralKernel_Ksub(self, i, j, X1, X2), {})
      [] self.cls = "LMC" -> LinearModelOfCoregionalizationKernel_Ksub(self, i, j, X1, X2)
      [] self.cls = "CONV" ->
            Block(GaussianConvolutionProcessKernel_Ksub(self, i, j, X1, X2), {})
      [] self.cls = "MOHSM" ->
            Block(MultiOutputHarmonizableSpectralKernel_Ksub(self, i, j, X1, X2), {})

\* kernel.Ksub_diag(i, X1) for a kernel of any class
Ksub_diag(self, i, X1) ==
    CASE self.cls = "Independent" -> IndependentMultiOutputKernel_Ksub_diag(self, i, X1)
      [] self.cls = "MOSM" -> Block(MultiOutputSpectralKernel_Ksub_diag(self, i, X1), {})
      [] self.cls = "uMOSM" ->
            Block(UncoupledMultiOutputSpectralKernel_Ksub_diag(self, i, X1), {})
      [] self.cls = "CSM" -> Block(CrossSpectralKernel_Ksub_diag(self, i, X1), {})
      [] self.cls = "LMC" -> LinearModelOfCoregionalizationKernel_Ksub_diag(self, i, X1)
      [] self.cls = "CONV" -> Block(GaussianConvolutionProcessKernel_Ksub_diag(self, i, X1), {})
      [] self.cls = "MOHSM" ->
            Block(MultiOutputHarmonizableSpectralKernel_Ksub_diag(self, i, X1), {})

----------------------------------------------------------------------------
(* The kernel under call: construction, assignment of parameter values and *)
(* the calls Ksub, Ksub_diag and K.                                        *)

\* Input shapes: the dimensions the kernel declares, the columns of the
\* points it is given, and its active dimensions
InputConfigs ==
    {[input_dims |-> 1, cols |-> 1, active_dims |-> NoActive],
     [input_dims |-> 1, cols |-> 2, active_dims |-> Active(<<2>>)],
     [input_dims |-> 2, cols |-> 2, active_dims |-> NoActive]}

\* Numbers of subcomponents and of sub-kernels
Shapes(cls, output_dims) ==
    CASE cls = "CSM" -> {[Rq |-> 1, Q |-> 0], [Rq |-> 2, Q |-> 0]}
      [] cls = "LMC" -> {[Rq |-> 1, Q |-> 1], [Rq |-> 2, Q |-> 2]}
      [] cls = "Independent" -> {[Rq |-> 0, Q |-> output_dims]}
      [] OTHER -> {[Rq |-> 0, Q |-> 0]}

\* Values torch.rand may draw
Rands == {QHalf, QN(1, 4)}

\* The points a call is made with, by the number of columns
Points(cols) ==
    IF cols = 1 THEN {<<QZero>>, <<QOne>>} ELSE {<<QZero, QOne>>, <<QOne, QZero>>}

\* The lists of n..m points
PointLists(cols, n, m) == UNION {[1..len -> Points(cols)] : len \in n..m}

\* Values of the per-channel parameters
ProfA ==
    [mag |-> QOne, mean |-> <<QOne, QN(1, 3)>>, var |-> <<QOne, QInt(2)>>,
     smooth |-> <<QZero, QZero>>, delay |-> <<QZero, QZero>>, phase |-> QZero,
     ls |-> QInt(3), amp |-> <<QOne, QInt(2)>>, shift |-> <<QZero, QZero>>]

ProfB ==
    [mag |-> QInt(2), mean |-> <<QN(1, 3), QN(1, 5)>>, var |-> <<QInt(2), QOne>>,
     smooth |-> <<QOne, QInt(2)>>, delay |-> <<QHalf, QOne>>, phase |-> QN(1, 4),
     ls |-> QOne, amp |-> <<QInt(2), QOne>>, shift |-> <<QN(1, 4), QN(1, 3)>>]

ProfC ==
    [mag |-> QHalf, mean |-> <<QN(1, 5), QOne>>, var |-> <<QOne, QOne>>,
     smooth |-> <<QHalf, QZero>>, delay |-> <<QInt(-1), QHalf>>, phase |-> QN(-1, 3),
     ls |-> QInt(2), amp |-> <<QHalf, QHalf>>, shift |-> <<QN(-1, 5), QOne>>]

\* Values of the parameters the channels share
SharedA ==
    [mean |-> <<QOne, QN(1, 3)>>, var |-> <<QOne, QInt(2)>>, center |-> <<QZero, QZero>>,
     raw |-> << <<QOne, QInt(5)>>, <<QInt(-1), QInt(2)>> >>]

SharedB ==
    [mean |-> <<QN(1, 5), QHalf>>, var |-> <<QInt(2), QHalf>>, center |-> <<QN(1, 4), QOne>>,
     raw |-> << <<QInt(2), QZero>>, <<QOne, QOne>> >>]

Preset(ch, sh) == [ch |-> ch, sh |-> sh]

Presets(output_dims) ==
    IF output_dims = 1
    THEN {Preset(<<ProfA>>, SharedA), Preset(<<ProfB>>, SharedB)}
    ELSE {Preset(<<ProfA, ProfB>>, SharedA), Preset(<<ProfB, ProfC>>, SharedB),
          Preset(<<ProfC, ProfA>>, SharedA), Preset(<<ProfA, ProfA>>, SharedB)}

\* The first n entries
Take(v, n) == [a \in 1..n |-> v[a]]

\* The values of a preset for the Parameters of the kernel
PresetValues(self, p) ==
    LET O == self.output_dims
        D == self.input_dims
        PerChannel(f) == [c \in 1..O |-> Take(p.ch[c][f], D)]
    IN  ("magnitude" :> IF self.cls = "uMOSM"
                        THEN [a \in 1..O |-> Take(p.sh.raw[a], O)]
                        ELSE [c \in 1..O |-> p.ch[c].mag]) @@
        ("mean" :> IF self.cls = "CSM" THEN Take(p.sh.mean, D) ELSE PerChannel("mean")) @@
        ("variance" :> CASE self.cls = "CSM" -> Take(p.sh.var, D)
                         [] self.cls = "CONV" -> PerChannel("smooth")
                         [] OTHER -> PerChannel("var")) @@
        ("delay" :> PerChannel("delay")) @@
        ("phase" :> [c \in 1..O |-> p.ch[c].phase]) @@
        ("lengthscale" :> [c \in 1..O |-> p.ch[c].ls]) @@
        ("center" :> Take(p.sh.center, D)) @@
        ("amplitude" :> [c \in 1..O |-> Take(p.ch[c].amp, self.Rq)]) @@
        ("shift" :> [c \in 1..O |-> Take(p.ch[c].shift, self.Rq)]) @@
        ("base_variance" :> Take(p.sh.var, D)) @@
        ("weight" :> IF self.cls = "LMC"
                     THEN [c \in 1..O |-> [q \in 1..self.Q |-> [r \in 1..self.Rq |->
                              QMul(p.ch[c].amp[r], QInt(q))]]]
                     ELSE [c \in 1..O |-> p.ch[c].mag])

\* The number of axes of the tensor of each Parameter
Axes(self, name) ==
    CASE name \in {"phase", "lengthscale", "center", "base_variance"} -> 1
      [] name \in {"delay", "amplitude", "shift"} -> 2
      [] name = "magnitude" -> IF self.cls = "uMOSM" THEN 2 ELSE 1
      [] name \in {"mean", "variance"} -> IF self.cls = "CSM" THEN 1 ELSE 2
      [] name = "weight" -> IF self.cls = "LMC" THEN 3 ELSE 1

\* All the numbers of a tensor of the given number of axes
RECURSIVE Entries(_, _)
Entries(v, axes) ==
    IF axes = 0 THEN {v} ELSE UNION {Entries(v[a], axes - 1) : a \in DOMAIN v}

\* A value is within the bounds the Parameter was created with; the positive
\* minimum is a positive number smaller than every value drawn here
WithinBounds(par, val, axes) ==
    \A x \in Entries(val, axes) :
        CASE par.lower = PositiveMinimum -> x.n > 0
          [] par.lower = LowerZero -> x.n >= 0
          [] OTHER -> TRUE

\* Parameter.assign(value) on every Parameter of the kernel
Kernel_assign(self, vals) ==
    [self EXCEPT !.params =
        [name \in DOMAIN self.params |-> [self.params[name] EXCEPT !.val = vals[name]]]]

\* A channel-augmented point: column 0 is the channel
Aug(c, x) == [c |-> c, x |-> x]

\* The rows of X of channel c, in order
RECURSIVE ChannelRows(_, _)
ChannelRows(X, c) ==
    IF X = <<>> THEN <<>>
    ELSE (IF Head(X).c = c THEN <<Head(X).x>> ELSE <<>>) \o ChannelRows(Tail(X), c)

\* The place of row a of X among the rows of its channel
Rank(X, a) == Cardinality({b \in 1..a : X[b].c = X[a].c})

\* MultiOutputKernel.K(X): the block Ksub(i, i, x_i) for each channel, the
\* block Ksub(i, j, x_i, x_j) for i < j and its transpose for j < i
Kernel_K(self, X) ==
    [a \in 1..Len(X) |-> [b \in 1..Len(X) |->
        LET i == X[a].c
            j == X[b].c
        IN  IF i = j THEN Ksub(self, i, i, ChannelRows(X, i), Omitted).K[Rank(X, a)][Rank(X, b)]
            ELSE IF i < j
            THEN Ksub(self, i, j, ChannelRows(X, i), Given(ChannelRows(X, j))).K
                     [Rank(X, a)][Rank(X, b)]
            ELSE Ksub(self, j, i, ChannelRows(X, j), Given(ChannelRows(X, i))).K
                     [Rank(X, b)][Rank(X, a)]]]

\* The channels of a kernel
Channels(self) == 0..(self.output_dims - 1)

\* The columns of the points the kernel under call is given
Cols(self) == IF self.active_dims.given THEN 2 ELSE self.input_dims

ConstructKernel ==
    /\ Idle
    /\ ~ker.built
    /\ \E cls \in KernelKinds, output_dims \in {1, 2}, cfg \in InputConfigs, rand \in Rands :
        \E shape \in Shapes(cls, output_dims) :
            /\ cfg.active_dims.given => TakesActiveDims(cls)
            /\ ker' = Kernel_init(cls, output_dims, cfg.input_dims, cfg.active_dims,
                                  shape.Rq, shape.Q, rand)
            /\ call' = [op |-> "init", cls |-> cls]
            /\ ret' = NoRet
    /\ UNCHANGED <<orig, mol, fbuf, lik, obj, ds>>

AssignParams ==
    /\ Idle
    /\ ker.built
    /\ ker.params # <<>>
    /\ \E p \in Presets(ker.output_dims) :
        LET vals == PresetValues(ker, p)
        IN  /\ \A name \in DOMAIN ker.params : WithinBounds(ker.params[name], vals[name], Axes(ker, name))
            /\ ker' = Kernel_assign(ker, vals)
            /\ call' = [op |-> "assign"]
            /\ ret' = NoRet
    /\ UNCHANGED <<orig, mol, fbuf, lik, obj, ds>>

CallKsub ==
    /\ Idle
    /\ ker.built
    /\ \E i \in Channels(ker), j \in Channels(ker), X1 \in PointLists(Cols(ker), 1, MaxKPts) :
        \E X2 \in {Omitted} \cup
                  {Given(X) : X \in PointLists(Cols(ker), 1, MaxKPts + 1 - Len(X1))} :
            /\ call' = [op |-> "Ksub", i |-> i, j |-> j, X1 |-> X1, X2 |-> X2]
            /\ ret' = Ksub(ker, i, j, X1, X2)
    /\ UNCHANGED <<orig, mol, fbuf, lik, obj, ker, ds>>

CallKsubDiag ==
    /\ Idle
    /\ ker.built
    /\ \E i \in Channels(ker), X1 \in PointLists(Cols(ker), 1, MaxKPts) :
        /\ call' = [op |-> "Ksub_diag", i |-> i, X1 |-> X1]
        /\ ret' = Ksub_diag(ker, i, X1)
    /\ UNCHANGED <<orig, mol, fbuf, lik, obj, ker, ds>>

CallK ==
    /\ Idle
    /\ ker.built
    /\ \E len \in 1..MaxKPts :
        \E X \in [1..len -> {Aug(c, x) : c \in Channels(ker), x \in Points(Cols(ker))}] :
            /\ call' = [op |-> "K", X |-> X]
            /\ ret' = [K |-> Kernel_K(ker, X)]
    /\ UNCHANGED <<orig, mol, fbuf, lik, obj, ker, ds>>

ReturnKernel ==
    /\ ~Idle
    /\ call' = NoCall
    /\ ret' = NoRet
    /\ UNCHANGED <<orig, mol, fbuf, lik, obj, ker, ds>>

NextKernel ==
    ConstructKernel \/ AssignParams \/ CallKsub \/ CallKsubDiag \/ CallK \/ ReturnKernel

SpecKernel == Init /\ [][NextKernel]_vars

----------------------------------------------------------------------------
(* Claims about the multi-output kernels, checked under SpecKernel.        *)

\* C16: block symmetry.  For every kernel, channels i, j and point sets X1,
\* X2, the transpose of Ksub(i, j, X1, X2) equals Ksub(j, i, X2, X1).
C16_BlockSymmetry ==
    (call.op = "Ksub" /\ call.X2.given) =>
        Transpose(ret.K, Len(call.X1), Len(call.X2.X))
            = Ksub(ker, call.j, call.i, call.X2.X, Given(call.X1)).K

\* A cross-channel MOSM block between different point sets, with delays and
\* phases set, that is not the block of the channels swapped alone
C16_Witness ==
    /\ call.op = "Ksub"
    /\ ker.cls = "MOSM"
    /\ call.i # call.j
    /\ call.X2.given
    /\ call.X2.X # call.X1
    /\ Len(call.X1) = 2
    /\ Ch(P(ker, "delay"), call.j) # Vec(ker.input_dims, QZero)
    /\ Ch(P(ker, "phase"), call.j) # QZero
    /\ ret.K[1][1] # ZeroVal
    /\ ret.K # Ksub(ker, call.j, call.i, call.X1, call.X2).K
    /\ Transpose(ret.K, Len(call.X1), Len(call.X2.X))
           = Ksub(ker, call.j, call.i, call.X2.X, Given(call.X1)).K

\* C17: diagonal consistency.  For every kernel, channel i and point set X1,
\* Ksub_diag(i, X1) has length |X1| and equals the diagonal of
\* Ksub(i, i, X1, X1), also when the kernel reads a subset of the columns.
C17_DiagonalConsistency ==
    call.op = "Ksub_diag" =>
        /\ Len(ret.K) = Len(call.X1)
        /\ ret.K = Diag(Ksub(ker, call.i, call.i, call.X1, Given(call.X1)).K)

\* An MOHSM kernel restricted to the second column, whose envelope makes the
\* two diagonal entries differ
C17_Witness ==
    /\ call.op = "Ksub_diag"
    /\ ker.cls = "MOHSM"
    /\ ker.active_dims = Active(<<2>>)
    /\ P(ker, "center") # Vec(ker.input_dims, QZero)
    /\ Len(call.X1) = 2
    /\ Len(ret.K) = 2
    /\ ret.K[1] # ret.K[2]
    /\ ret.K[1] # ZeroVal
    /\ ret.K = Diag(Ksub(ker, call.i, call.i, call.X1, Given(call.X1)).K)

\* The matrix equals its transpose
Symmetric(K) == \A a \in 1..Len(K), b \in 1..Len(K) : K[a][b] = K[b][a]

\* A value of one term with no cosine and no sub-kernel factor left:
\* c * s * exp(E), with s = sqrt(root) * (2 pi)^twopi * exp(-pi^2 * pi2) > 0
IsPlain(v) ==
    /\ Cardinality(v) = 1
    /\ \A t \in v : t.k.cos = CosOne /\ t.k.sub = NoSub

TheTerm(v) == CHOOSE t \in v : TRUE

\* The factor s of a plain value
Factor(v) == [TheTerm(v).k EXCEPT !.E = QZero]

\* The minor K[a][a] * K[b][b] - K[a][b]^2 is negative for certain: the three
\* entries are plain with one factor s, the diagonal ones positive, and both
\* caa * cbb <= cab^2 and Eaa + Ebb < 2 * Eab
MinorNegative(K, a, b) ==
    /\ IsPlain(K[a][a]) /\ IsPlain(K[b][b]) /\ IsPlain(K[a][b])
    /\ Factor(K[a][a]) = Factor(K[a][b])
    /\ Factor(K[b][b]) = Factor(K[a][b])
    /\ LET taa == TheTerm(K[a][a])
           tbb == TheTerm(K[b][b])
           tab == TheTerm(K[a][b])
       IN  /\ taa.c.n > 0
           /\ tbb.c.n > 0
           /\ ~QLess(QMul(tab.c, tab.c), QMul(taa.c, tbb.c))
           /\ QLess(QAdd(taa.k.E, tbb.k.E), QMul(QInt(2), tab.k.E))

\* C18: for every kernel and parameter values within their bounds, the joint
\* covariance matrix assembled from the Ksub blocks over a channel-augmented
\* point set is symmetric and positive semi-definite; a positive
\* semi-definite matrix has no negative 2 x 2 principal minor.
C18_SymmetricPSD ==
    call.op = "K" =>
        /\ Symmetric(ret.K)
        /\ \A a \in 1..Len(ret.K), b \in 1..Len(ret.K) : ~MinorNegative(ret.K, a, b)

\* C19: IndependentMultiOutputKernel.Ksub(i, j, X1, X2) is, for i = j, the
\* block of channel i's own sub-kernel and evaluates no other sub-kernel;
\* for i # j it is an all-zero matrix of |X1| rows and |X2| columns (|X1|
\* columns when X2 is left out) and evaluates no sub-kernel.
C19_IndependentKsub ==
    (call.op = "Ksub" /\ ker.cls = "Independent") =>
        IF call.i = call.j
        THEN /\ ret.evaluated = {call.i}
             /\ ret.K = SubK(call.i, call.X1, call.X2)
        ELSE /\ ret.evaluated = {}
             /\ Len(ret.K) = Len(call.X1)
             /\ \A n \in 1..Len(ret.K) :
                    /\ Len(ret.K[n]) = IF call.X2.given THEN Len(call.X2.X) ELSE Len(call.X1)
                    /\ \A m \in 1..Len(ret.K[n]) : ret.K[n][m] = ZeroVal

\* A cross-channel block with X2 left out: two rows, two columns, all zero
C19_Witness ==
    /\ call.op = "Ksub"
    /\ ker.cls = "Independent"
    /\ call.i # call.j
    /\ ~call.X2.given
    /\ Len(call.X1) = 2
    /\ ret.K = Full(2, 2, ZeroVal)
    /\ ret.evaluated = {}

\* The Parameters that stand for a variance, a magnitude, a weight or a
\* lengthscale, and those that stand for a delay, phase, shift or center
ScaleParams == {"variance", "base_variance", "magnitude", "amplitude", "weight", "lengthscale"}
OffsetParams == {"delay", "phase", "shift", "center"}

\* The lower bound the Parameter was created with, as the claim gives it
ClaimedLower(self, name) ==
    IF self.cls = "uMOSM" /\ name = "magnitude" THEN Unbounded
    ELSE IF name \in ScaleParams THEN PositiveMinimum
    ELSE Unbounded

\* C20 as stated: every variance, magnitude, weight and lengthscale Parameter
\* is created with lower bound positive_minimum, every delay, phase, shift and
\* center Parameter and uMOSM's raw magnitude matrix with no bounds.
C20_AllPositiveMinimum ==
    ker.built =>
        \A name \in ParamNames(ker) \cap (ScaleParams \cup OffsetParams) :
            /\ ker.params[name].lower = ClaimedLower(ker, name)
            /\ ker.params[name].upper = Unbounded

\* C20: as above, except that CONV's per-channel variance is created with
\* lower bound 0.0.
C20_ParameterBounds ==
    ker.built =>
        \A name \in ParamNames(ker) \cap (ScaleParams \cup OffsetParams) :
            /\ ker.params[name].lower =
                   IF ker.cls = "CONV" /\ name = "variance" THEN LowerZero
                   ELSE ClaimedLower(ker, name)
            /\ ker.params[name].upper = Unbounded

\* A CONV kernel after construction, and after an assignment that sets a
\* per-channel variance to zero
C20_Witness ==
    /\ ker.built
    /\ ker.cls = "CONV"
    /\ call.op = "assign"
    /\ ker.params["variance"].lower = LowerZero
    /\ ker.params["weight"].lower = PositiveMinimum
    /\ ker.params["base_variance"].lower = PositiveMinimum
    /\ QZero \in Entries(P(ker, "variance"), 2)

\* The MOSM kernel whose parameters coincide with those of the uMOSM kernel
\* and whose magnitudes satisfy magnitude[i] * magnitude[j] = (L * L^T)[i, j]
MOSMTwin(self, i, j) ==
    LET mag == UncoupledMagnitude(self)
    IN  [self EXCEPT !.cls = "MOSM",
                     !.params["magnitude"] =
                         Parameter([c \in 1..self.output_dims |->
                                       IF c = i + 1 THEN Ch(Ch(mag, i), j) ELSE QOne],
                                   PositiveMinimum)]

\* C21: the cross-channel block of uMOSM is the cross-channel block of MOSM
\* with magnitude[i] * magnitude[j] replaced by (L * L^T)[i, j]: the two
\* kernels return equal cross blocks whenever these two agree and all other
\* parameters coincide.
C21_SameCrossBlock ==
    (call.op = "Ksub" /\ ker.cls = "uMOSM" /\ call.i # call.j) =>
        ret.K = MultiOutputSpectralKernel_Ksub(MOSMTwin(ker, call.i, call.j),
                                               call.i, call.j, call.X1, call.X2)

\* C22: for every kernel and all channels i, j, Ksub(i, j, X1) with X2 left
\* out returns the same block as Ksub(i, j, X1, X1): which formula is used
\* depends on i = j only, never on whether X2 was passed.
C22_OmittedX2 ==
    (call.op = "Ksub" /\ ~call.X2.given) =>
        ret.K = Ksub(ker, call.i, call.j, call.X1, Given(call.X1)).K

----------------------------------------------------------------------------
(* gpr/likelihood.py : the likelihoods with a link function.               *)
(*                                                                         *)
(* Values are exact rationals.  exp, inv_probit and logistic are evaluated  *)
(* at the latent value where their result is rational, f = 0; square is     *)
(* evaluated at latent values of both signs.  The Parameters shape and      *)
(* scale of an instance are kept in half units.                             *)

\* exp(0) = 1; inv_probit(0) = 0.5*(1 + erf(0))*(1 - 2*jitter) + jitter = 1/2;
\* logistic(0) = 1/2; square(x) = x^2
Link(link, f) ==
    CASE link = "exp" -> QOne
      [] link \in {"inv_probit", "logistic"} -> QN(1, 2)
      [] link = "square" -> QMul(f, f)

LinkDomain(link) == IF link = "square" THEN {QInt(0 - 1), QInt(1), QInt(2)} ELSE {QZero}

shape(self) == QN(self.shape, 2)
scale(self) == QN(self.scale, 2)

\* torch.lgamma(q).exp() at the positive integers: (q - 1)!
RECURSIVE Factorial(_)
Factorial(n) == IF n <= 1 THEN 1 ELSE n * Factorial(n - 1)

GammaFn(q) == QInt(Factorial(q.n - 1))

\* mean(f)
Link_mean(self, f) ==
    CASE self.cls \in {"ExponentialLikelihood", "BernoulliLikelihood",
                       "BetaLikelihood", "PoissonLikelihood"} -> Link(self.link, f)
      [] self.cls = "GammaLikelihood" -> QMul(shape(self), Link(self.link, f))
      [] self.cls = "WeibullLikelihood" ->
            QMul(f, GammaFn(QAdd(QOne, QInv(shape(self)))))

\* variance(f)
Link_variance(self, f) ==
    LET h == Link(self.link, f)
    IN  CASE self.cls = "ExponentialLikelihood" -> QMul(h, h)
          [] self.cls = "BernoulliLikelihood" -> QSub(h, QMul(h, h))
          [] self.cls = "BetaLikelihood" ->
                QDiv(QSub(h, QMul(h, h)), QAdd(scale(self), QOne))
          [] self.cls = "GammaLikelihood" -> QMul(shape(self), QMul(h, h))
          [] self.cls = "PoissonLikelihood" -> h
          [] self.cls = "WeibullLikelihood" ->
                LET a == GammaFn(QAdd(QOne, QDiv(QInt(2), shape(self))))
                    b == GammaFn(QAdd(QOne, QInv(shape(self))))
                IN  QMul(QMul(f, f), QSub(a, QMul(b, b)))

\* A distribution of torch.distributions and its arguments in their order;
\* Returned(v) is the value v itself, drawn from nothing
Dist(family, a, b) == [family |-> family, a |-> a, b |-> b]
Returned(v) == Dist("Returned", v, QZero)

\* sample(f): the distribution whose .sample() is returned
Link_sample(self, f) ==
    LET h == Link(self.link, f)
    IN  CASE self.cls = "ExponentialLikelihood" -> Dist("Exponential", h, QZero)
          [] self.cls = "BernoulliLikelihood" -> Returned(f)
          [] self.cls = "BetaLikelihood" ->
                Dist("Beta", QMul(h, scale(self)), QMul(QSub(QOne, h), scale(self)))
          [] self.cls = "GammaLikelihood" -> Dist("Gamma", shape(self), QInv(h))
          [] self.cls = "PoissonLikelihood" -> Dist("Poisson", h, QZero)
          [] self.cls = "WeibullLikelihood" -> Dist("Weibull", h, shape(self))

\* A log-density as a function of y, up to the terms without y:
\*   lin*y + y*log(ylog) + logy*log(y) + log1my*log(1-y) - (y/pow.scale)^pow.k
\*   - lgam*lgamma(y+1), or log(p) at y = 1 and log(1-p) at y = 0 (bern = p)
LogDensity(family, lin, ylog, logy, log1my, pow, lgam, bern) ==
    [family |-> family, lin |-> lin, ylog |-> ylog, logy |-> logy, log1my |-> log1my,
     pow |-> pow, lgam |-> lgam, bern |-> bern]

NoPow == [k |-> QZero, scale |-> QOne]

\* log_prob(y, f) as a function of y; with link == exp the code writes f
\* for log(link(f))
Link_log_prob(self, f) ==
    LET h == Link(self.link, f)
    IN  CASE self.cls = "ExponentialLikelihood" ->
                LogDensity("Exponential", QNeg(QInv(h)), QOne, QZero, QZero, NoPow, 0, QZero)
          [] self.cls = "BernoulliLikelihood" ->
                LogDensity("Bernoulli", QZero, QOne, QZero, QZero, NoPow, 0, h)
          [] self.cls = "BetaLikelihood" ->
                LogDensity("Beta", QZero, QOne, QSub(QMul(h, scale(self)), QOne),
                           QSub(QMul(QSub(QOne, h), scale(self)), QOne), NoPow, 0, QZero)
          [] self.cls = "GammaLikelihood" ->
                LogDensity("Gamma", QNeg(QInv(h)), QOne, QSub(shape(self), QOne), QZero,
                           NoPow, 0, QZero)
          [] self.cls = "PoissonLikelihood" ->
                LogDensity("Poisson", QZero, h, QZero, QZero, NoPow, 1, QZero)
          [] self.cls = "WeibullLikelihood" ->
                LogDensity("Weibull", QZero, QOne, QSub(shape(self), QOne), QZero,
                           [k |-> shape(self), scale |-> h], 0, QZero)

LinkKinds == {"ExponentialLikelihood", "BernoulliLikelihood", "BetaLikelihood",
              "GammaLikelihood", "PoissonLikelihood", "WeibullLikelihood"}

\* The links an instance is given: the default of its class, and another
\* link of the module with the same range
LinksOf(c) == IF DefaultLink(c) = "exp" THEN {"exp", "square"} ELSE {"inv_probit", "logistic"}

LinkLiks ==
    {[cls |-> c, dof |-> 0, scale |-> sc, shape |-> sh, link |-> l] :
        c \in LinkKinds, sc \in {2, 4}, sh \in {1, 2}, l \in {"exp", "square", "inv_probit", "logistic"}}

ConstructLinkLik ==
    /\ Idle
    /\ \E l \in LinkLiks :
        /\ l.link \in LinksOf(l.cls)
        /\ lik' = l
    /\ UNCHANGED <<call, ret, orig, mol, fbuf, obj, ker, ds>>

CallLinkMoment ==
    /\ Idle
    /\ lik.cls \in LinkKinds
    /\ \E f \in LinkDomain(lik.link), op \in {"mean", "variance"} :
        /\ call' = [op |-> op, f |-> f]
        /\ ret' = [err |-> "none",
                   value |-> IF op = "mean" THEN Link_mean(lik, f) ELSE Link_variance(lik, f)]
    /\ UNCHANGED <<orig, mol, fbuf, lik, obj, ker, ds>>

CallLinkSample ==
    /\ Idle
    /\ lik.cls \in LinkKinds
    /\ \E f \in LinkDomain(lik.link) :
        /\ call' = [op |-> "sample", f |-> f]
        /\ ret' = [err |-> "none", value |-> Link_sample(lik, f)]
    /\ UNCHANGED <<orig, mol, fbuf, lik, obj, ker, ds>>

CallLinkLogProb ==
    /\ Idle
    /\ lik.cls \in LinkKinds
    /\ \E f \in LinkDomain(lik.link) :
        /\ call' = [op |-> "log_prob", f |-> f]
        /\ ret' = [err |-> "none", value |-> Link_log_prob(lik, f)]
    /\ UNCHANGED <<orig, mol, fbuf, lik, obj, ker, ds>>

ReturnLink ==
    /\ call.op \in {"mean", "variance", "sample", "log_prob"}
    /\ call' = NoCall
    /\ ret' = NoRet
    /\ UNCHANGED <<orig, mol, fbuf, lik, obj, ker, ds>>

NextLink == ConstructLinkLik \/ CallLinkMoment \/ CallLinkSample \/ CallLinkLogProb \/ ReturnLink

SpecLink == Init /\ [][NextLink]_vars

\* The mean of a distribution
DistMean(dd) ==
    CASE dd.family = "Exponential" -> QInv(dd.a)
      [] dd.family = "Gamma" -> QDiv(dd.a, dd.b)
      [] dd.family = "Poisson" -> dd.a
      [] dd.family = "Weibull" -> QMul(dd.a, GammaFn(QAdd(QOne, QInv(dd.b))))
      [] dd.family = "Beta" -> QDiv(dd.a, QAdd(dd.a, dd.b))
      [] dd.family = "Returned" -> dd.a

\* The log-density of a distribution, as a function of y
DistLogDensity(dd) ==
    CASE dd.family = "Exponential" ->
            LogDensity("Exponential", QNeg(dd.a), QOne, QZero, QZero, NoPow, 0, QZero)
      [] dd.family = "Gamma" ->
            LogDensity("Gamma", QNeg(dd.b), QOne, QSub(dd.a, QOne), QZero, NoPow, 0, QZero)
      [] dd.family = "Poisson" ->
            LogDensity("Poisson", QZero, dd.a, QZero, QZero, NoPow, 1, QZero)
      [] dd.family = "Weibull" ->
            LogDensity("Weibull", QZero, QOne, QSub(dd.b, QOne), QZero,
                       [k |-> dd.b, scale |-> dd.a], 0, QZero)
      [] dd.family = "Beta" ->
            LogDensity("Beta", QZero, QOne, QSub(dd.a, QOne), QSub(dd.b, QOne), NoPow, 0, QZero)
      [] dd.family = "Returned" ->
            LogDensity("Returned", QZero, QOne, QZero, QZero, NoPow, 0, dd.a)

IsLinkCall == lik.cls \in LinkKinds /\ call.op \in {"mean", "variance", "sample", "log_prob"}

\* mean(f) and variance(f) take the same value at latent values of equal h(f)
ThroughLink ==
    (IsLinkCall /\ call.op \in {"mean", "variance"}) =>
        \A g \in LinkDomain(lik.link) :
            Link(lik.link, g) = Link(lik.link, call.f) =>
                ret.value = IF call.op = "mean" THEN Link_mean(lik, g) ELSE Link_variance(lik, g)

\* sample(f) draws from the distribution of density log_prob(., f)
SampleOfLogProb ==
    (IsLinkCall /\ call.op = "sample") => DistLogDensity(ret.value) = Link_log_prob(lik, call.f)

\* the distribution sampled has mean mean(f)
SampleMean ==
    (IsLinkCall /\ call.op = "sample") => DistMean(ret.value) = Link_mean(lik, call.f)

\* C28: for every likelihood that takes a link function h and implements
\* sample, mean(f) and variance(f) depend on f only through h(f), and
\* sample(f) draws from the distribution whose density is log_prob(., f),
\* so that the distribution sampled has mean mean(f).
C28_OneParameterization == ThroughLink /\ SampleOfLogProb /\ SampleMean

====
